---- MODULE Spec2Model ----
(***************************************************************************)
(* Model of the bounded multi-round tool-orchestration loop                *)
(* (AIGenerator.generate_response and AIGenerator._execute_tools in        *)
(* backend/ai_generator.py) together with the collaborators it talks to:   *)
(* the LLM completion endpoint (client.messages.create), the tool          *)
(* dispatcher (ToolManager.execute_tool) and the coordinator that resets   *)
(* and collects the sources around one run.                                *)
(*                                                                         *)
(* Conventions.                                                            *)
(*   - A Python Optional value is a sequence of length 0 (None) or 1.      *)
(*   - A Python str is a sequence of string pieces, so that concatenation  *)
(*     is \o and the empty string is <<>>.                                 *)
(*   - A Python dict is a function whose DOMAIN is the set of its keys.    *)
(***************************************************************************)
EXTENDS Integers, Sequences, FiniteSets, TLC

(***************************************************************************)
(* Bounds of the model.                                                    *)
(***************************************************************************)
\* largest value of config.MAX_TOOL_ROUNDS that is explored (0..MaxRoundsBound)
MaxRoundsBound == 2
\* largest number of content blocks in one LLM response
MaxBlocks == 2

(***************************************************************************)
(* Python values.                                                          *)
(***************************************************************************)
None == <<>>
Some(x) == <<x>>
Get(o) == o[1]

\* truthiness of an Optional[str] / Optional[List]: None, "" and [] are falsy
Truthy(o) == o # None /\ Get(o) # <<>>

(***************************************************************************)
(* State.                                                                  *)
(***************************************************************************)
VARIABLES
    MAX_TOOL_ROUNDS,       \* config.MAX_TOOL_ROUNDS
    pc,                    \* position of the run
    caller,                \* who invoked generate_response: "direct" or "rag"
    query,                 \* argument query
    conversation_history,  \* argument conversation_history (Optional[str])
    tools,                 \* argument tools (Optional[List])
    tool_manager,          \* argument tool_manager (Optional)
    system_content,        \* local system_content
    messages,              \* local messages: the message log
    current_response,      \* local current_response (Optional)
    round_num,             \* loop variable; -1 while it is unbound
    block_idx,             \* position of _execute_tools in response.content
    tool_results,          \* local tool_results of _execute_tools
    last_sources,          \* the registry's accumulated sources
    api_calls,             \* keyword arguments of every client.messages.create call of the run
    api_responses,         \* what each client.messages.create call of the run returned
    tool_calls,            \* arguments of every tool_manager.execute_tool call of the run
    thrown,                \* exception raised inside the run by the client or a tool (Optional)
    returned,              \* value returned by generate_response (Optional)
    raised,                \* exception that left generate_response (Optional)
    query_result,          \* (answer, sources) returned by the coordinator (Optional)
    rag_sources,           \* the coordinator's local sources, once collected (Optional)
    exchanges,             \* the (query, answer) pairs the coordinator appended to the
                           \* session history while serving the query
    stale_sources,         \* what the registry held when the coordinator was entered
    \* concurrent queries of one host process
    discipline,            \* how the host runs concurrent queries
    lock,                  \* the thread inside the critical section, 0 when it is free
    registry,              \* the accumulated sources of each ToolManager instance
    c_pc,                  \* position of each thread's query
    c_messages,            \* the local messages of each generate_response frame
    c_round_num,           \* the local round_num of each generate_response frame
    c_current_response,    \* the local current_response of each thread's call
    c_trace,               \* what each thread's query has seen and done so far
    \* the request layer and the session store
    session_counter,       \* SessionManager: number of sessions created so far
    sessions,              \* SessionManager: session id -> retained exchanges
    app_pc,                \* position of the endpoint that is being served
    request,               \* the request body of the endpoint being served (Optional)
    session_id,            \* local session_id of query_documents (Optional[str])
    session_history,       \* the history the coordinator handed to the loop (Optional[str])
    response,              \* the HTTP response of the endpoint (Optional)
    exception,             \* exception caught by the endpoint's except clause (Optional)
    last_exchange,         \* per session, the exchange of its latest answered query
    prev_failure,          \* body of the latest earlier failure response (Optional)
    \* the search tool and the retrieval store
    store_chunks,          \* the chunks the retrieval store holds
    searches,              \* every CourseSearchTool.execute call so far and its outcome
    tool_last_sources,     \* CourseSearchTool.last_sources
    \* a call of the legacy _handle_tool_execution
    h_pc,                  \* position of the call
    h_initial_response,    \* argument initial_response (Optional)
    h_base_params,         \* argument base_params: the caller's dict (Optional)
    h_tool_manager,        \* argument tool_manager (Optional)
    h_messages,            \* local messages
    h_block_idx,           \* position of _execute_tools in initial_response.content
    h_tool_results,        \* local tool_results
    h_tool_calls,          \* arguments of every tool_manager.execute_tool call
    h_api_calls,           \* keyword arguments of every client.messages.create call
    h_final_response,      \* final_response (Optional)
    h_returned,            \* value returned (Optional)
    h_raised               \* exception that left the call (Optional)

\* the state of the single query at a time
loopVars == <<pc, caller, query, conversation_history, tools,
              tool_manager, system_content, messages, current_response, round_num,
              block_idx, tool_results, last_sources, api_calls, api_responses,
              tool_calls, thrown, returned, raised, query_result,
              rag_sources, exchanges, stale_sources>>

\* the state of the concurrent queries
concVars == <<discipline, lock, registry, c_pc, c_messages, c_round_num,
              c_current_response, c_trace>>

\* the state of the request layer and of the session store
appVars == <<session_counter, sessions, app_pc, request, session_id,
             session_history, response, exception, last_exchange, prev_failure>>

\* the state of the search tool and of the retrieval store
toolVars == <<store_chunks, searches, tool_last_sources>>

\* the state of a call of the legacy method
legacyVars == <<h_pc, h_initial_response, h_base_params, h_tool_manager,
                h_messages, h_block_idx, h_tool_results, h_tool_calls,
                h_api_calls, h_final_response, h_returned, h_raised>>

vars == <<MAX_TOOL_ROUNDS, loopVars, concVars, appVars, toolVars, legacyVars>>

(***************************************************************************)
(* Constants of the program.                                               *)
(***************************************************************************)
SYSTEM_PROMPT == <<"SYSTEM_PROMPT">>

base_params == [model |-> "model", temperature |-> 0, max_tokens |-> 800]

NO_TOOL_MANAGER == <<"Unable to process tool requests - tool manager not available">>

NO_RESPONSE == <<"No response generated">>

(***************************************************************************)
(* Inputs.                                                                 *)
(***************************************************************************)
Queries == {<<"What does lesson 1 teach?">>}

Histories == {None, Some(<<>>), Some(<<"User: Hello\nAssistant: Hi there!">>)}

SEARCH_TOOL == "search_course_content"

ToolDefinitions == <<[name |-> SEARCH_TOOL]>>

ToolsArgs == {None, Some(<<>>), Some(ToolDefinitions)}

\* a ToolManager is the set of the tool names registered with it
TOOL_MANAGER == Some({SEARCH_TOOL})

\* no dispatcher, the registry, or a manager nothing is registered with
ToolManagers == {None, TOOL_MANAGER, Some({})}

(***************************************************************************)
(* The LLM completion endpoint: client.messages.create either    *)
(* raises or returns a response with a stop_reason and a list of content   *)
(* blocks.  The c-th call of a run labels its blocks with c, so that the   *)
(* text and the tool_use ids of different responses differ.                *)
(***************************************************************************)
LLMErrors == {"APIConnectionError", "RateLimitError"}

LLMText(c, p) == <<"text", ToString(c), ToString(p)>>

TextBlock(c, p) == [type |-> "text", text |-> LLMText(c, p)]

ToolUseBlock(c, p) ==
    [type |-> "tool_use", id |-> <<c, p>>, name |-> SEARCH_TOOL,
     input |-> [query |-> <<c, p>>]]

\* content of a response that signals tool use: an optional leading text
\* block, then the tool-request blocks (possibly none)
ToolUseContents(c) ==
    { lead \o [p \in 1..k |-> ToolUseBlock(c, Len(lead) + p)] :
        lead \in {<<>>, <<TextBlock(c, 1)>>}, k \in 0..MaxBlocks }

\* content of a text answer: one or two text blocks
TextContents(c) == { <<TextBlock(c, 1)>>, <<TextBlock(c, 1), TextBlock(c, 2)>> }

\* "I want to use tool(s)"
ToolUseResponses(c) ==
    { [stop_reason |-> "tool_use", content |-> ct] : ct \in ToolUseContents(c) }

\* "final text"
TextResponses(c) ==
    { [stop_reason |-> s, content |-> ct] :
        s \in {"end_turn", "max_tokens"}, ct \in TextContents(c) }

\* what an in-budget call can answer
LLMResponses(c) == ToolUseResponses(c) \cup TextResponses(c)

\* what the call without tool schemas can answer: a text, whatever it signals
FinalResponses(c) ==
    { [stop_reason |-> s, content |-> ct] :
        s \in {"end_turn", "max_tokens", "tool_use"}, ct \in TextContents(c) }

(***************************************************************************)
(* The dispatcher: ToolManager.execute_tool on a manager with the given    *)
(* set of registered tool names.                                           *)
(***************************************************************************)
ToolErrors == {"ToolError"}

\* the label of a hit: the title of the course the search was filtered to
Source(input) ==
    [text |-> (IF "course_name" \in DOMAIN input
               THEN input.course_name
               ELSE <<"CourseTitle">>) \o <<" - Lesson 1">>]

execute_tool(registered, name, input) ==
    IF name \notin registered
    THEN { [kind |-> "return", value |-> <<"Tool '", name, "' not found">>,
            sources |-> None] }
    ELSE { [kind |-> "return", value |-> <<"[CourseTitle - Lesson 1]\n...">>,
            sources |-> Some(<<Source(input)>>)] }
         \cup { [kind |-> "raise", exc |-> e] : e \in ToolErrors }

\* variant: resetting leaves the accumulated sources where they are
reset_sources_Noop(sources) == sources

\* variant: resetting keeps the most recent source
reset_sources_KeepLast(sources) ==
    IF sources = <<>> THEN <<>> ELSE <<sources[Len(sources)]>>

\* ToolManager.reset_sources: clear every tool's accumulated sources
reset_sources(sources) == <<>>

\* variant: the sources are cleared before they are read
get_last_sources_Cleared(sources) == <<>>

\* ToolManager.get_last_sources: read the accumulated sources
get_last_sources(sources) == sources

(***************************************************************************)
(* Pieces of generate_response.                                            *)
(***************************************************************************)
\* variant: the history is appended whenever one was passed, empty or not
SystemContent_NotNone(history) ==
    IF history # None
    THEN SYSTEM_PROMPT \o <<"\n\nPrevious conversation:\n">> \o Get(history)
    ELSE SYSTEM_PROMPT

SystemContent(history) ==
    IF Truthy(history)
    THEN SYSTEM_PROMPT \o <<"\n\nPrevious conversation:\n">> \o Get(history)
    ELSE SYSTEM_PROMPT

\* variant: the log is seeded with a prompt built around the query
SeedMessages_Prompted(q) ==
    <<[role |-> "user", content |-> <<"Answer this question: ">> \o q]>>

SeedMessages(q) == <<[role |-> "user", content |-> q]>>

\* variant: the last in-budget round is called without the tools
ApiParams_LastRoundBare(msgs, sys, tls) ==
    LET p == [messages |-> msgs, system |-> sys] @@ base_params
    IN  IF Truthy(tls) /\ round_num + 1 < MAX_TOOL_ROUNDS
        THEN [tools |-> Get(tls), tool_choice |-> [type |-> "auto"]] @@ p
        ELSE p

\* api_params of an in-budget call
ApiParams(msgs, sys, tls) ==
    LET p == [messages |-> msgs, system |-> sys] @@ base_params
    IN  IF Truthy(tls)
        THEN [tools |-> Get(tls), tool_choice |-> [type |-> "auto"]] @@ p
        ELSE p

\* variant: the call after the loop is built like an in-budget call
FinalParams_WithTools(msgs, sys) == ApiParams(msgs, sys, tools)

\* variant: the call after the loop is given the bare instructions
FinalParams_BasePrompt(msgs, sys) ==
    [messages |-> msgs, system |-> SYSTEM_PROMPT] @@ base_params

\* final_params of the call after the loop
FinalParams(msgs, sys) == [messages |-> msgs, system |-> sys] @@ base_params

\* variant: the range runs one round too far
RangeHasNext_Inclusive(r) == r + 1 <= MAX_TOOL_ROUNDS

\* for round_num in range(config.MAX_TOOL_ROUNDS): is there a next value
RangeHasNext(r) == r + 1 < MAX_TOOL_ROUNDS

\* variant: continue starts the range again
ForNext_Restart ==
    IF RangeHasNext(round_num)
    THEN round_num' = 0 /\ pc' = "call"
    ELSE round_num' = round_num /\ pc' = "after_loop"

\* the head of the for loop, entered from before the loop or by continue
ForNext ==
    IF RangeHasNext(round_num)
    THEN round_num' = round_num + 1 /\ pc' = "call"
    ELSE round_num' = round_num /\ pc' = "after_loop"

\* variant: a response is a tool request when it holds a tool_use block
IsToolUse_ByContent(resp) ==
    \E i \in 1..Len(resp.content) : resp.content[i].type = "tool_use"

\* variant: every stop reason but end_turn starts a tool round
IsToolUse_NotEndTurn(resp) == resp.stop_reason # "end_turn"

IsToolUse(resp) == resp.stop_reason = "tool_use"

IsToolUseBlock(content_block) == content_block.type = "tool_use"

\* variant: the iteration skips every other block
NextBlock_Skip(i) == i + 2

\* for content_block in response.content: the position after position i
NextBlock(i) == i + 1

\* variant: only the tool requests of the response are logged
AssistantMessage_RequestsOnly(resp) ==
    [role |-> "assistant",
     content |-> SelectSeq(resp.content, LAMBDA b : b.type = "tool_use")]

\* variant: only the text of the response is logged, not its tool requests
AssistantMessage_TextOnly(resp) ==
    [role |-> "assistant",
     content |-> SelectSeq(resp.content, LAMBDA b : b.type = "text")]

AssistantMessage(resp) == [role |-> "assistant", content |-> resp.content]

\* variant: the tool results are logged under a role of their own
UserMessage_ToolRole(results) == [role |-> "tool", content |-> results]

UserMessage(results) == [role |-> "user", content |-> results]

\* variant: the tool is called without the block's input
ExecuteToolArgs_NoInput(content_block) ==
    [name |-> content_block.name, input |-> [query |-> <<>>]]

\* the arguments of tool_manager.execute_tool(name, input as keywords)
ExecuteToolArgs(content_block) ==
    [name |-> content_block.name, input |-> content_block.input]

\* variant: the block handed back keeps the id and drops what the tool said
ToolResult_NoContent(block, value) ==
    [type |-> "tool_result", tool_use_id |-> block.id, content |-> <<>>]

ToolResult(block, value) ==
    [type |-> "tool_result", tool_use_id |-> block.id, content |-> value]

Return(v) == pc' = "done" /\ returned' = Some(v) /\ UNCHANGED <<raised, thrown>>

\* variant: the exception is wrapped before it leaves
Propagate_Wrapped(e) == "Exception"

\* no handler between the raising call and the caller: the exception that
\* leaves generate_response is the one that was raised
Propagate(e) == e

\* variant: the exception is caught and turned into an answer
Raise_Swallowed(e) ==
    /\ pc' = "done"
    /\ thrown' = Some(e)
    /\ raised' = raised
    /\ returned' = Some(<<"Error: ", e>>)

Raise(e) ==
    /\ pc' = "raised"
    /\ thrown' = Some(e)
    /\ raised' = Some(Propagate(e))
    /\ returned' = returned

\* variant: a response cut off by max_tokens is answered with the fallback
ReturnFirstText_Truncated(resp) ==
    IF resp.content = <<>>
    THEN Raise("IndexError")
    ELSE IF resp.content[1].type # "text"
         THEN Raise("AttributeError")
         ELSE IF resp.stop_reason = "max_tokens"
              THEN Return(NO_RESPONSE)
              ELSE Return(resp.content[1].text)

\* return resp.content[0].text
ReturnFirstText(resp) ==
    IF resp.content = <<>>
    THEN Raise("IndexError")
    ELSE IF resp.content[1].type # "text"
         THEN Raise("AttributeError")
         ELSE Return(resp.content[1].text)

\* variant: the dispatcher is used without looking at it
NoToolManager_Unchecked(tm) == FALSE

\* if not tool_manager
NoToolManager(tm) == tm = None

(***************************************************************************)
(* Init: the generator is constructed, no run has started.                 *)
(***************************************************************************)
\* no query is being served
LoopIdle ==
    /\ pc = "idle"
    /\ caller = "none"
    /\ query = <<>>
    /\ conversation_history = None
    /\ tools = None
    /\ tool_manager = None
    /\ system_content = <<>>
    /\ messages = <<>>
    /\ current_response = None
    /\ round_num = -1
    /\ block_idx = 0
    /\ tool_results = <<>>
    /\ last_sources = <<>>
    /\ api_calls = <<>>
    /\ api_responses = <<>>
    /\ tool_calls = <<>>
    /\ thrown = None
    /\ returned = None
    /\ raised = None
    /\ query_result = None
    /\ rag_sources = None
    /\ exchanges = <<>>
    /\ stale_sources = <<>>

\* the threads of the host process that serve queries
Threads == {1, 2}

\* the ToolManager instances: 0 is the one the process shares
RegistryIds == {0} \cup Threads

\* no thread has started its query
ConcIdle ==
    /\ lock = 0
    /\ registry = [i \in RegistryIds |-> <<>>]
    /\ c_pc = [t \in Threads |-> "idle"]
    /\ c_messages = [t \in Threads |-> <<>>]
    /\ c_round_num = [t \in Threads |-> -1]
    /\ c_current_response = [t \in Threads |-> None]
    /\ c_trace = [t \in Threads |->
                     [calls |-> <<>>, rounds |-> <<>>, recorded |-> <<>>,
                      overlapped |-> FALSE, answer |-> None, collected |-> None]]

\* a session store without sessions
NoSessions == [s \in {} |-> <<>>]

\* no request is being served and no session exists
AppIdle ==
    /\ session_counter = 0
    /\ sessions = NoSessions
    /\ app_pc = "idle"
    /\ request = None
    /\ session_id = None
    /\ session_history = None
    /\ response = None
    /\ exception = None
    /\ last_exchange = NoSessions
    /\ prev_failure = None

\* the legacy method is not being called
LegacyIdle ==
    /\ h_pc = "idle"
    /\ h_initial_response = None
    /\ h_base_params = None
    /\ h_tool_manager = None
    /\ h_messages = <<>>
    /\ h_block_idx = 0
    /\ h_tool_results = <<>>
    /\ h_tool_calls = <<>>
    /\ h_api_calls = <<>>
    /\ h_final_response = None
    /\ h_returned = None
    /\ h_raised = None

\* the search tool is constructed over an empty store, nothing was searched
ToolIdle ==
    /\ store_chunks = <<>>
    /\ searches = <<>>
    /\ tool_last_sources = <<>>

Init ==
    /\ MAX_TOOL_ROUNDS \in 0..MaxRoundsBound
    /\ LoopIdle
    /\ discipline = "threads"
    /\ ConcIdle
    /\ AppIdle
    /\ LegacyIdle
    /\ ToolIdle

(***************************************************************************)
(* generate_response up to the head of the loop.                           *)
(***************************************************************************)
Enter(q, h, t, tm) ==
    /\ query' = q
    /\ conversation_history' = h
    /\ tools' = t
    /\ tool_manager' = tm
    /\ system_content' = SystemContent(h)
    /\ messages' = SeedMessages(q)
    /\ current_response' = None
    /\ IF RangeHasNext(-1)
       THEN round_num' = 0 /\ pc' = "call"
       ELSE round_num' = -1 /\ pc' = "after_loop"
    /\ block_idx' = 0
    /\ tool_results' = <<>>
    /\ api_calls' = <<>>
    /\ api_responses' = <<>>
    /\ tool_calls' = <<>>
    /\ thrown' = None
    /\ returned' = None
    /\ raised' = None
    /\ query_result' = None
    /\ rag_sources' = None
    /\ exchanges' = <<>>
    /\ UNCHANGED <<legacyVars, appVars, toolVars, concVars, MAX_TOOL_ROUNDS>>

\* the caller has the outcome of the call and the frame's locals are gone
Finished == pc = "idle"

\* a direct call of generate_response with any arguments
generate_response ==
    /\ Finished
    /\ \E q \in Queries, h \in Histories, t \in ToolsArgs, tm \in ToolManagers :
          Enter(q, h, t, tm)
    /\ caller' = "direct"
    /\ UNCHANGED <<last_sources, stale_sources>>

\* the coordinator: reset the sources, then run the loop with the
\* registry's schemas and the registry as dispatcher
rag_query ==
    /\ Finished
    /\ stale_sources' = last_sources
    /\ last_sources' = reset_sources(last_sources)
    /\ \E q \in Queries, h \in Histories :
          Enter(q, h, Some(ToolDefinitions), TOOL_MANAGER)
    /\ caller' = "rag"

\* what the coordinator's steps after the loop leave alone
rag_frame == <<legacyVars, appVars, toolVars, concVars, MAX_TOOL_ROUNDS, caller, query, conversation_history, tools,
               tool_manager, system_content, messages, current_response,
               round_num, block_idx, tool_results, last_sources, api_calls,
               api_responses, tool_calls, thrown, returned, raised>>

\* the coordinator after the loop returned: collect the sources
rag_collect_sources ==
    /\ pc = "done"
    /\ caller = "rag"
    /\ rag_sources' = Some(get_last_sources(last_sources))
    /\ pc' = "collected"
    /\ UNCHANGED <<rag_frame, query_result, exchanges, stale_sources>>

\* variant: nothing is appended to the session history
rag_add_exchange_Skipped ==
    /\ pc = "collected"
    /\ pc' = "recorded"
    /\ UNCHANGED <<rag_frame, query_result, rag_sources, exchanges, stale_sources>>

\* variant: a failed query is recorded in the session history as well
rag_add_exchange_OnError ==
    /\ \/ pc = "collected" /\ pc' = "recorded"
       \/ pc = "raised" /\ caller = "rag" /\ exchanges = <<>> /\ pc' = pc
    /\ exchanges' =
          Append(exchanges,
                 [query |-> query,
                  answer |-> IF pc = "raised" THEN <<"Error">> ELSE Get(returned)])
    /\ UNCHANGED <<rag_frame, query_result, rag_sources, stale_sources>>

\* then append the (query, answer) pair to the session history
rag_add_exchange ==
    /\ pc = "collected"
    /\ exchanges' = Append(exchanges, [query |-> query, answer |-> Get(returned)])
    /\ pc' = "recorded"
    /\ UNCHANGED <<rag_frame, query_result, rag_sources, stale_sources>>

\* then return (answer, sources)
rag_return ==
    /\ pc = "recorded"
    /\ query_result' = Some([answer |-> Get(returned), sources |-> Get(rag_sources)])
    /\ pc' = "returned"
    /\ UNCHANGED <<rag_frame, rag_sources, exchanges, stale_sources>>

(***************************************************************************)
(* One in-budget round: the LLM call and the branch on its response.       *)
(***************************************************************************)
call_llm ==
    /\ pc = "call"
    /\ api_calls' = Append(api_calls, ApiParams(messages, system_content, tools))
    /\ \/ /\ \E e \in LLMErrors : Raise(e)
          /\ UNCHANGED <<current_response, api_responses, messages, block_idx,
                         tool_results>>
       \/ \E r \in LLMResponses(Len(api_calls) + 1) :
             /\ current_response' = Some(r)
             /\ api_responses' = Append(api_responses, r)
             /\ IF IsToolUse(r)
                THEN IF NoToolManager(tool_manager)
                     THEN /\ Return(NO_TOOL_MANAGER)
                          /\ UNCHANGED <<messages, block_idx, tool_results>>
                     ELSE /\ messages' = Append(messages, AssistantMessage(r))
                          /\ tool_results' = <<>>
                          /\ block_idx' = 1
                          /\ pc' = "execute_tools"
                          /\ UNCHANGED <<returned, raised, thrown>>
                ELSE /\ ReturnFirstText(r)
                     /\ UNCHANGED <<messages, block_idx, tool_results>>
    /\ UNCHANGED <<legacyVars, appVars, toolVars, concVars, MAX_TOOL_ROUNDS, caller, query, conversation_history, tools,
                   tool_manager, system_content, round_num, last_sources,
                   tool_calls, query_result,
                   rag_sources, exchanges, stale_sources>>

(***************************************************************************)
(* _execute_tools: one content block per step.                             *)
(***************************************************************************)
execute_tools_block ==
    /\ pc = "execute_tools"
    /\ block_idx <= Len(Get(current_response).content)
    /\ LET content_block == Get(current_response).content[block_idx]
       IN  IF IsToolUseBlock(content_block)
           THEN /\ tool_calls' = Append(tool_calls, ExecuteToolArgs(content_block))
                /\ \E o \in execute_tool(Get(tool_manager),
                                          ExecuteToolArgs(content_block).name,
                                          ExecuteToolArgs(content_block).input) :
                      IF o.kind = "raise"
                      THEN /\ Raise(o.exc)
                           /\ UNCHANGED <<tool_results, block_idx, last_sources>>
                      ELSE /\ tool_results' =
                                  Append(tool_results, ToolResult(content_block, o.value))
                           /\ last_sources' =
                                  IF o.sources = None THEN last_sources ELSE Get(o.sources)
                           /\ block_idx' = NextBlock(block_idx)
                           /\ UNCHANGED <<pc, returned, raised, thrown>>
           ELSE /\ block_idx' = NextBlock(block_idx)
                /\ UNCHANGED <<tool_calls, tool_results, last_sources, pc, returned,
                               raised, thrown>>
    /\ UNCHANGED <<legacyVars, appVars, toolVars, concVars, MAX_TOOL_ROUNDS, caller, query, conversation_history, tools,
                   tool_manager, system_content, messages, current_response,
                   round_num, api_calls, api_responses, query_result,
                   rag_sources, exchanges, stale_sources>>

\* variant: a round without results logs no user message
append_tool_results_IfAny ==
    /\ pc = "execute_tools"
    /\ block_idx > Len(Get(current_response).content)
    /\ messages' = IF tool_results # <<>>
                   THEN Append(messages, UserMessage(tool_results))
                   ELSE messages
    /\ ForNext
    /\ UNCHANGED <<legacyVars, appVars, toolVars, concVars, MAX_TOOL_ROUNDS, caller, query, conversation_history, tools,
                   tool_manager, system_content, current_response, block_idx,
                   tool_results, last_sources, api_calls, api_responses,
                   tool_calls, thrown, returned, raised, query_result,
                   rag_sources, exchanges, stale_sources>>

\* _execute_tools returns; the results are appended and the loop continues
append_tool_results ==
    /\ pc = "execute_tools"
    /\ block_idx > Len(Get(current_response).content)
    /\ messages' = Append(messages, UserMessage(tool_results))
    /\ ForNext
    /\ UNCHANGED <<legacyVars, appVars, toolVars, concVars, MAX_TOOL_ROUNDS, caller, query, conversation_history, tools,
                   tool_manager, system_content, current_response, block_idx,
                   tool_results, last_sources, api_calls, api_responses,
                   tool_calls, thrown, returned, raised, query_result,
                   rag_sources, exchanges, stale_sources>>

(***************************************************************************)
(* After the loop.                                                         *)
(***************************************************************************)
\* variant: the branch after the loop is never taken
NeedsFinalCall_Dropped == FALSE

NeedsFinalCall == current_response # None /\ IsToolUse(Get(current_response))

final_call ==
    /\ pc = "after_loop"
    /\ NeedsFinalCall
    /\ api_calls' = Append(api_calls, FinalParams(messages, system_content))
    /\ \/ /\ \E e \in LLMErrors : Raise(e)
          /\ UNCHANGED api_responses
       \/ \E r \in FinalResponses(Len(api_calls) + 1) :
             /\ api_responses' = Append(api_responses, r)
             /\ ReturnFirstText(r)
    /\ UNCHANGED <<legacyVars, appVars, toolVars, concVars, MAX_TOOL_ROUNDS, caller, query, conversation_history, tools,
                   tool_manager, system_content, messages, current_response,
                   round_num, block_idx, tool_results, last_sources, tool_calls,
                   query_result,
                   rag_sources, exchanges, stale_sources>>

fallback ==
    /\ pc = "after_loop"
    /\ ~NeedsFinalCall
    /\ IF current_response # None
       THEN ReturnFirstText(Get(current_response))
       ELSE Return(NO_RESPONSE)
    /\ UNCHANGED <<legacyVars, appVars, toolVars, concVars, MAX_TOOL_ROUNDS, caller, query, conversation_history, tools,
                   tool_manager, system_content, messages, current_response,
                   round_num, block_idx, tool_results, last_sources, api_calls,
                   api_responses, tool_calls, query_result,
                   rag_sources, exchanges, stale_sources>>

\* generate_response (or the coordinator) has returned or raised: its locals
\* are discarded; only the registry's sources and the configuration live on
discard_frame ==
    /\ pc \in {"done", "raised", "returned"}
    /\ ~(caller = "rag" /\ pc = "done")
    /\ pc' = "idle"
    /\ caller' = "none"
    /\ query' = <<>>
    /\ conversation_history' = None
    /\ tools' = None
    /\ tool_manager' = None
    /\ system_content' = <<>>
    /\ messages' = <<>>
    /\ current_response' = None
    /\ round_num' = -1
    /\ block_idx' = 0
    /\ tool_results' = <<>>
    /\ api_calls' = <<>>
    /\ api_responses' = <<>>
    /\ tool_calls' = <<>>
    /\ thrown' = None
    /\ returned' = None
    /\ raised' = None
    /\ query_result' = None
    /\ rag_sources' = None
    /\ exchanges' = <<>>
    /\ stale_sources' = <<>>
    /\ UNCHANGED <<legacyVars, appVars, toolVars, concVars, MAX_TOOL_ROUNDS, last_sources>>

Next ==
    \/ generate_response
    \/ discard_frame
    \/ rag_query
    \/ rag_collect_sources
    \/ rag_add_exchange
    \/ rag_return
    \/ call_llm
    \/ execute_tools_block
    \/ append_tool_results
    \/ final_call
    \/ fallback

Spec == Init /\ [][Next]_vars

\* the run keeps executing: a synchronous call is never suspended for ever
FairSpec ==
    /\ Spec
    /\ WF_vars(call_llm)
    /\ WF_vars(execute_tools_block)
    /\ WF_vars(append_tool_results)
    /\ WF_vars(final_call)
    /\ WF_vars(fallback)

(***************************************************************************)
(* The legacy _handle_tool_execution: one round of dispatch for a given    *)
(* response, then one call without tools.  It is a method of the same      *)
(* generator, called while no generate_response run is in progress, with   *)
(* the api_params generate_response would have built.                      *)
(***************************************************************************)
LegacyBaseParams ==
    { ApiParams(SeedMessages(q), SystemContent(h), t) :
        q \in Queries, h \in Histories, t \in {None, Some(ToolDefinitions)} }

LegacyInitialResponses ==
    { [stop_reason |-> "tool_use", content |-> ct] : ct \in ToolUseContents(1) }

\* variant: messages is the caller's list itself
SharesCallerList_NoCopy == TRUE

\* messages = base_params["messages"].copy(): a new list, so an append to
\* it does not reach the caller's list
SharesCallerList == FALSE

\* the caller's dict after messages.append(m)
CallerParamsAfterAppend(params, m) ==
    IF SharesCallerList
    THEN Some([Get(params) EXCEPT !.messages = Append(@, m)])
    ELSE params

\* variant: the results are appended even when there are none
HasToolResults_Always(results) == TRUE

\* if tool_results
HasToolResults(results) == results # <<>>

legacy_frame == <<MAX_TOOL_ROUNDS, concVars, appVars, toolVars, pc, caller, query,
                  conversation_history, tools, tool_manager, system_content,
                  messages, current_response, round_num, block_idx, tool_results,
                  api_calls, api_responses, tool_calls, thrown, returned, raised,
                  query_result, rag_sources, exchanges, stale_sources>>

\* the call up to _execute_tools: copy the messages, add the response
handle_tool_execution ==
    /\ h_pc = "idle"
    /\ pc = "idle"
    /\ \E r \in LegacyInitialResponses, bp \in LegacyBaseParams,
          tm \in ToolManagers :
          /\ h_initial_response' = Some(r)
          /\ h_tool_manager' = tm
          /\ h_messages' = Append(bp.messages, AssistantMessage(r))
          /\ h_base_params' = CallerParamsAfterAppend(Some(bp), AssistantMessage(r))
    /\ h_tool_results' = <<>>
    /\ h_block_idx' = 1
    /\ h_pc' = "execute_tools"
    /\ UNCHANGED <<h_tool_calls, h_api_calls, h_final_response, h_returned,
                   h_raised, last_sources, legacy_frame>>

\* _execute_tools, one content block per step
h_execute_tools_block ==
    /\ h_pc = "execute_tools"
    /\ h_block_idx <= Len(Get(h_initial_response).content)
    /\ LET content_block == Get(h_initial_response).content[h_block_idx]
       IN  IF IsToolUseBlock(content_block)
           THEN IF h_tool_manager = None
                THEN /\ h_raised' = Some("AttributeError")
                     /\ h_pc' = "raised"
                     /\ UNCHANGED <<h_tool_calls, h_tool_results, h_block_idx,
                                    last_sources>>
                ELSE /\ h_tool_calls' =
                           Append(h_tool_calls, ExecuteToolArgs(content_block))
                     /\ \E o \in execute_tool(Get(h_tool_manager),
                                               ExecuteToolArgs(content_block).name,
                                               ExecuteToolArgs(content_block).input) :
                           IF o.kind = "raise"
                           THEN /\ h_raised' = Some(Propagate(o.exc))
                                /\ h_pc' = "raised"
                                /\ UNCHANGED <<h_tool_results, h_block_idx,
                                               last_sources>>
                           ELSE /\ h_tool_results' =
                                      Append(h_tool_results,
                                             ToolResult(content_block, o.value))
                                /\ last_sources' =
                                      IF o.sources = None THEN last_sources
                                      ELSE Get(o.sources)
                                /\ h_block_idx' = NextBlock(h_block_idx)
                                /\ UNCHANGED <<h_pc, h_raised>>
           ELSE /\ h_block_idx' = NextBlock(h_block_idx)
                /\ UNCHANGED <<h_tool_calls, h_tool_results, last_sources, h_pc,
                               h_raised>>
    /\ UNCHANGED <<h_initial_response, h_base_params, h_tool_manager, h_messages,
                   h_api_calls, h_final_response, h_returned, legacy_frame>>

\* _execute_tools has returned: add the results if there are any, then make
\* the call without tools and return its text
h_final_call ==
    /\ h_pc = "execute_tools"
    /\ h_block_idx > Len(Get(h_initial_response).content)
    /\ LET after == IF HasToolResults(h_tool_results)
                    THEN Append(h_messages, UserMessage(h_tool_results))
                    ELSE h_messages
       IN  /\ h_messages' = after
           /\ h_base_params' =
                 IF HasToolResults(h_tool_results)
                 THEN CallerParamsAfterAppend(h_base_params,
                                              UserMessage(h_tool_results))
                 ELSE h_base_params
           /\ h_api_calls' =
                 Append(h_api_calls, FinalParams(after, Get(h_base_params).system))
    /\ \/ \E e \in LLMErrors :
             /\ h_raised' = Some(Propagate(e))
             /\ h_pc' = "raised"
             /\ UNCHANGED <<h_final_response, h_returned>>
       \/ \E r \in FinalResponses(2) :
             /\ h_final_response' = Some(r)
             /\ h_returned' = Some(r.content[1].text)
             /\ h_pc' = "done"
             /\ UNCHANGED h_raised
    /\ UNCHANGED <<h_initial_response, h_tool_manager, h_block_idx, h_tool_results,
                   h_tool_calls, last_sources, legacy_frame>>

\* the call has returned or raised: its locals are gone
h_discard_frame ==
    /\ h_pc \in {"done", "raised"}
    /\ h_pc' = "idle"
    /\ h_initial_response' = None
    /\ h_base_params' = None
    /\ h_tool_manager' = None
    /\ h_messages' = <<>>
    /\ h_block_idx' = 0
    /\ h_tool_results' = <<>>
    /\ h_tool_calls' = <<>>
    /\ h_api_calls' = <<>>
    /\ h_final_response' = None
    /\ h_returned' = None
    /\ h_raised' = None
    /\ UNCHANGED <<last_sources, legacy_frame>>

\* a step of generate_response or of the coordinator: the generator is not
\* inside the legacy method
LoopNext == h_pc = "idle" /\ Next

GeneratorNext ==
    \/ LoopNext
    \/ handle_tool_execution
    \/ h_execute_tools_block
    \/ h_final_call
    \/ h_discard_frame

\* the generator with both of its entry points
GeneratorSpec == Init /\ [][GeneratorNext]_vars

(***************************************************************************)
(* Concurrent queries.  The process has one RAGSystem, hence one           *)
(* AIGenerator and one ToolManager; each thread serves one query: the      *)
(* coordinator resets the sources, runs generate_response and collects     *)
(* the sources.  The LLM answers each call with one tool request for the   *)
(* course of the thread's question or with one text block.                 *)
(***************************************************************************)
\* how the host runs concurrent queries: threads without mutual exclusion,
\* the whole query as one critical section (a handler that never yields to
\* the event loop, or a lock), or a ToolManager of its own for every query
Disciplines == {"threads", "critical_section", "own_registry"}

QueryOf(t) == <<"Query ", ToString(t)>>

ConcToolUseBlock(t, c) ==
    [type |-> "tool_use", id |-> <<c, 1>>, name |-> SEARCH_TOOL,
     input |-> [query |-> <<c, 1>>, course_name |-> <<"Course ", ToString(t)>>]]

ConcLLMResponses(t, c) ==
    { [stop_reason |-> "tool_use", content |-> <<ConcToolUseBlock(t, c)>>],
      [stop_reason |-> "end_turn", content |-> <<TextBlock(c, 1)>>] }

ConcFinalResponses(t, c) ==
    { [stop_reason |-> "end_turn", content |-> <<TextBlock(c, 1)>>] }

\* variant: the log and the round counter are attributes of the generator
FrameOf_Instance(t) == 1

\* messages and round_num are locals: every call has a frame of its own
FrameOf(t) == t

\* the ToolManager a thread's query works with
RegistryOf(t) == IF discipline = "own_registry" THEN t ELSE 0

\* variant: the critical section is entered without looking at the lock
CanEnter_NoLock(t) == TRUE

\* a query enters the critical section only when no other query is inside
CanEnter(t) == discipline = "critical_section" => lock = 0

Acquire(t) == IF discipline = "critical_section" THEN t ELSE lock

Release(t) == IF lock = t THEN 0 ELSE lock

\* between its reset and its collect
InFlight(t) == c_pc[t] \in {"call", "execute_tools", "after_loop", "done"}

\* thread t writes a registry: the queries in flight see a step of another
\* query between their reset and their collect
Overlap(t, tr) ==
    [u \in Threads |->
        IF u # t /\ InFlight(u) THEN [tr[u] EXCEPT !.overlapped = TRUE] ELSE tr[u]]

ConcInit ==
    /\ MAX_TOOL_ROUNDS \in 0..MaxRoundsBound
    /\ LoopIdle
    /\ discipline \in Disciplines
    /\ ConcIdle
    /\ AppIdle
    /\ LegacyIdle
    /\ ToolIdle

\* the coordinator resets the sources and calls generate_response, which
\* builds its locals and reaches the head of the loop
c_query(t) ==
    /\ c_pc[t] = "idle"
    /\ CanEnter(t)
    /\ lock' = Acquire(t)
    /\ registry' = [registry EXCEPT ![RegistryOf(t)] = reset_sources(@)]
    /\ c_messages' = [c_messages EXCEPT ![FrameOf(t)] = SeedMessages(QueryOf(t))]
    /\ c_current_response' = [c_current_response EXCEPT ![t] = None]
    /\ IF RangeHasNext(-1)
       THEN /\ c_round_num' = [c_round_num EXCEPT ![FrameOf(t)] = 0]
            /\ c_pc' = [c_pc EXCEPT ![t] = "call"]
       ELSE /\ c_round_num' = [c_round_num EXCEPT ![FrameOf(t)] = -1]
            /\ c_pc' = [c_pc EXCEPT ![t] = "after_loop"]
    /\ c_trace' = Overlap(t, c_trace)
    /\ UNCHANGED <<MAX_TOOL_ROUNDS, loopVars, legacyVars, appVars, toolVars, discipline>>

\* one in-budget round: the LLM call and the branch on its response
c_call_llm(t) ==
    /\ c_pc[t] = "call"
    /\ LET log  == c_messages[FrameOf(t)]
           seen == [c_trace EXCEPT ![t].calls = Append(@, log)]
       IN  \/ /\ c_pc' = [c_pc EXCEPT ![t] = "raised"]
              /\ c_trace' = seen
              /\ UNCHANGED <<c_messages, c_current_response>>
           \/ \E r \in ConcLLMResponses(t, Len(c_trace[t].calls) + 1) :
                 /\ c_current_response' = [c_current_response EXCEPT ![t] = Some(r)]
                 /\ IF IsToolUse(r)
                    THEN /\ c_messages' =
                               [c_messages EXCEPT ![FrameOf(t)] =
                                   Append(@, AssistantMessage(r))]
                         /\ c_trace' =
                               [seen EXCEPT ![t].rounds = Append(@, AssistantMessage(r))]
                         /\ c_pc' = [c_pc EXCEPT ![t] = "execute_tools"]
                    ELSE /\ c_trace' =
                               [seen EXCEPT ![t].answer = Some(r.content[1].text)]
                         /\ c_pc' = [c_pc EXCEPT ![t] = "done"]
                         /\ UNCHANGED c_messages
    /\ UNCHANGED <<MAX_TOOL_ROUNDS, loopVars, legacyVars, appVars, toolVars, discipline, lock, registry, c_round_num>>

\* _execute_tools on the one tool request of the response, then the
\* results are appended and the loop continues
c_execute_tools(t) ==
    /\ c_pc[t] = "execute_tools"
    /\ LET content_block == Get(c_current_response[t]).content[1]
       IN  \E o \in execute_tool({SEARCH_TOOL}, ExecuteToolArgs(content_block).name,
                                 ExecuteToolArgs(content_block).input) :
              IF o.kind = "raise"
              THEN /\ c_pc' = [c_pc EXCEPT ![t] = "raised"]
                   /\ UNCHANGED <<registry, c_messages, c_round_num, c_trace>>
              ELSE LET results == UserMessage(<<ToolResult(content_block, o.value)>>)
                   IN  /\ registry' = [registry EXCEPT ![RegistryOf(t)] = Get(o.sources)]
                       /\ c_messages' =
                             [c_messages EXCEPT ![FrameOf(t)] = Append(@, results)]
                       /\ c_trace' =
                             Overlap(t, [c_trace EXCEPT
                                            ![t].rounds = Append(@, results),
                                            ![t].recorded = Get(o.sources)])
                       /\ IF RangeHasNext(c_round_num[FrameOf(t)])
                          THEN /\ c_round_num' =
                                     [c_round_num EXCEPT ![FrameOf(t)] = @ + 1]
                               /\ c_pc' = [c_pc EXCEPT ![t] = "call"]
                          ELSE /\ c_pc' = [c_pc EXCEPT ![t] = "after_loop"]
                               /\ UNCHANGED c_round_num
    /\ UNCHANGED <<MAX_TOOL_ROUNDS, loopVars, legacyVars, appVars, toolVars, discipline, lock, c_current_response>>

\* the call after the loop, without tools
c_final_call(t) ==
    /\ c_pc[t] = "after_loop"
    /\ c_current_response[t] # None
    /\ IsToolUse(Get(c_current_response[t]))
    /\ LET seen == [c_trace EXCEPT ![t].calls = Append(@, c_messages[FrameOf(t)])]
       IN  \/ /\ c_pc' = [c_pc EXCEPT ![t] = "raised"]
              /\ c_trace' = seen
           \/ \E r \in ConcFinalResponses(t, Len(c_trace[t].calls) + 1) :
                 /\ c_trace' = [seen EXCEPT ![t].answer = Some(r.content[1].text)]
                 /\ c_pc' = [c_pc EXCEPT ![t] = "done"]
    /\ UNCHANGED <<MAX_TOOL_ROUNDS, loopVars, legacyVars, appVars, toolVars, discipline, lock, registry, c_messages,
                   c_round_num, c_current_response>>

\* the loop did not run
c_fallback(t) ==
    /\ c_pc[t] = "after_loop"
    /\ c_current_response[t] = None
    /\ c_trace' = [c_trace EXCEPT ![t].answer = Some(NO_RESPONSE)]
    /\ c_pc' = [c_pc EXCEPT ![t] = "done"]
    /\ UNCHANGED <<MAX_TOOL_ROUNDS, loopVars, legacyVars, appVars, toolVars, discipline, lock, registry, c_messages,
                   c_round_num, c_current_response>>

\* the coordinator collects the sources and returns
c_collect(t) ==
    /\ c_pc[t] = "done"
    /\ c_trace' =
          [c_trace EXCEPT
              ![t].collected = Some(get_last_sources(registry[RegistryOf(t)]))]
    /\ lock' = Release(t)
    /\ c_pc' = [c_pc EXCEPT ![t] = "returned"]
    /\ UNCHANGED <<MAX_TOOL_ROUNDS, loopVars, legacyVars, appVars, toolVars, discipline, registry, c_messages,
                   c_round_num, c_current_response>>

\* the exception leaves generate_response and the coordinator
c_propagate(t) ==
    /\ c_pc[t] = "raised"
    /\ lock' = Release(t)
    /\ c_pc' = [c_pc EXCEPT ![t] = "failed"]
    /\ UNCHANGED <<MAX_TOOL_ROUNDS, loopVars, legacyVars, appVars, toolVars, discipline, registry, c_messages,
                   c_round_num, c_current_response, c_trace>>

ConcNext ==
    \E t \in Threads :
        \/ c_query(t)
        \/ c_call_llm(t)
        \/ c_execute_tools(t)
        \/ c_final_call(t)
        \/ c_fallback(t)
        \/ c_collect(t)
        \/ c_propagate(t)

ConcSpec == ConcInit /\ [][ConcNext]_vars


(***************************************************************************)
(* The request layer (app.py) over the coordinator and the session store.  *)
(* The handlers are coroutines that never await: the event loop serves one *)
(* request at a time.  The coordinator's loop is the one modelled above;   *)
(* here it is a call that returns an answer with sources or raises.        *)
(***************************************************************************)
\* largest number of sessions the store creates
MaxSessions == 2

\* config.MAX_HISTORY: how many exchanges a session retains
MAX_HISTORY == 2

AppQueries == {<<"What is an API?">>, <<"Tell me more">>}

\* f"session_{self.session_counter}"
SessionId(n) == <<"session_", ToString(n)>>

\* request.session_id of a query: absent, empty, generated earlier, or the
\* caller's own
RequestSessionIds ==
    {None, Some(<<>>), Some(SessionId(1)), Some(<<"test-session-123">>)}

\* request.session_id of a session-clear request
ClearSessionIds ==
    {SessionId(1), <<"test-session-123">>, <<"nonexistent-session-id">>}

\* what rag_system.query answers with
AppAnswers == {<<"An API is an interface.">>}

AppSources == {<<>>, <<<<"CourseTitle - Lesson 1">>>>}

\* the exceptions that leave rag_system.query
InternalErrors ==
    { [type |-> "Exception", message |-> <<"API Error">>],
      [type |-> "APIConnectionError", message |-> <<"Connection error.">>] }

\* the exceptions the session store can raise
StoreErrors == { [type |-> "RuntimeError", message |-> <<"store unavailable">>] }

\* str(e)
Str(e) == e.message

(***************************************************************************)
(* The session store (SessionManager).                                     *)
(***************************************************************************)
\* the sessions after create_session, which returns SessionId(counter + 1):
\* the new session starts without exchanges
create_session(store, counter) ==
    [s \in DOMAIN store \cup {SessionId(counter + 1)} |->
        IF s = SessionId(counter + 1) THEN <<>> ELSE store[s]]

\* the latest exchange of each session, once the session sid starts afresh
Forget(latest, sid) ==
    [s \in DOMAIN latest |-> IF s = sid THEN None ELSE latest[s]]

FormatExchange(x) == <<"User: ">> \o x.query \o <<"\nAssistant: ">> \o x.answer

RECURSIVE FormatHistory(_)
FormatHistory(exs) ==
    IF Len(exs) = 1 THEN FormatExchange(exs[1])
    ELSE FormatHistory(SubSeq(exs, 1, Len(exs) - 1)) \o <<"\n">>
         \o FormatExchange(exs[Len(exs)])

\* the formatted history of a session, None when there is nothing to format
get_conversation_history(store, sid) ==
    IF sid \notin DOMAIN store \/ store[sid] = <<>>
    THEN None
    ELSE Some(FormatHistory(store[sid]))

\* variant: a full history keeps its oldest exchanges and drops the new one
add_exchange_KeepOldest(store, sid, q, a) ==
    LET old == IF sid \in DOMAIN store THEN store[sid] ELSE <<>>
        all == Append(old, [query |-> q, answer |-> a])
        kept == IF Len(all) > MAX_HISTORY THEN SubSeq(all, 1, MAX_HISTORY) ELSE all
    IN  [s \in DOMAIN store \cup {sid} |-> IF s = sid THEN kept ELSE store[s]]

\* append the exchange, then keep the MAX_HISTORY most recent ones
add_exchange(store, sid, q, a) ==
    LET old == IF sid \in DOMAIN store THEN store[sid] ELSE <<>>
        all == Append(old, [query |-> q, answer |-> a])
        kept == IF Len(all) > MAX_HISTORY
                THEN SubSeq(all, Len(all) - MAX_HISTORY + 1, Len(all))
                ELSE all
    IN  [s \in DOMAIN store \cup {sid} |-> IF s = sid THEN kept ELSE store[s]]

\* SessionManager.clear_session: forget the exchanges of a known session
SessionManager_clear_session(store, sid) ==
    [s \in DOMAIN store |-> IF s = sid THEN <<>> ELSE store[s]]

(***************************************************************************)
(* Pieces of the endpoints.                                                *)
(***************************************************************************)
\* variant: only a missing session id gets a session created
NeedsSession_NoneOnly(sid) == sid = None

\* variant: a session is created for every request
NeedsSession_Always(sid) == TRUE

\* if not session_id
NeedsSession(sid) == ~Truthy(sid)

QueryResponse(a, srcs, sid) ==
    [status_code |-> 200,
     body |-> [answer |-> a, sources |-> srcs, session_id |-> sid]]

\* HTTPException(status_code=500, detail=str(e))
HTTPException(status, detail) ==
    [status_code |-> status, body |-> [detail |-> detail]]

\* variant: the exception of the store is answered like that of a query
SessionClearFailure_Http(sid, e) == HTTPException(500, Str(e))

\* the except clause of clear_session
SessionClearFailure(sid, e) ==
    [status_code |-> 200,
     body |-> [success |-> FALSE,
               message |-> <<"Error clearing session: ">> \o Str(e)]]

SessionClearSuccess(sid) ==
    [status_code |-> 200,
     body |-> [success |-> TRUE,
               message |-> <<"Session ">> \o sid \o <<" cleared successfully">>]]

app_frame == <<MAX_TOOL_ROUNDS, loopVars, concVars, toolVars, legacyVars>>

AppInit ==
    /\ MAX_TOOL_ROUNDS = MaxRoundsBound
    /\ LoopIdle
    /\ discipline = "threads"
    /\ ConcIdle
    /\ AppIdle
    /\ LegacyIdle
    /\ ToolIdle

\* POST /api/query up to the coordinator's call of the loop: the session id
\* is resolved, then rag_system.query formats the session's history
query_documents ==
    /\ app_pc = "idle"
    /\ \E q \in AppQueries, sid \in RequestSessionIds :
          /\ NeedsSession(sid) => session_counter < MaxSessions
          /\ request' = Some([endpoint |-> "/api/query", query |-> q,
                              session_id |-> sid])
          /\ session_id' = IF NeedsSession(sid)
                           THEN Some(SessionId(session_counter + 1))
                           ELSE sid
          /\ session_counter' = IF NeedsSession(sid)
                                THEN session_counter + 1
                                ELSE session_counter
          /\ sessions' = IF NeedsSession(sid)
                         THEN create_session(sessions, session_counter)
                         ELSE sessions
          /\ last_exchange' = IF NeedsSession(sid)
                              THEN Forget(last_exchange, SessionId(session_counter + 1))
                              ELSE last_exchange
    /\ session_history' = get_conversation_history(sessions', Get(session_id'))
    /\ app_pc' = "query"
    /\ UNCHANGED <<response, exception, prev_failure, app_frame>>

\* the loop returned: the coordinator records the exchange and returns, the
\* endpoint answers with the QueryResponse
query_documents_return ==
    /\ app_pc = "query"
    /\ \E a \in AppAnswers, srcs \in AppSources :
          /\ sessions' = add_exchange(sessions, Get(session_id),
                                      Get(request).query, a)
          /\ last_exchange' =
                [s \in DOMAIN last_exchange \cup {Get(session_id)} |->
                    IF s = Get(session_id)
                    THEN Some([query |-> Get(request).query, answer |-> a])
                    ELSE last_exchange[s]]
          /\ response' = Some(QueryResponse(a, srcs, Get(session_id)))
    /\ app_pc' = "responded"
    /\ UNCHANGED <<session_counter, request, session_id, session_history,
                   exception, prev_failure, app_frame>>

\* an exception left rag_system.query: except Exception as e
query_documents_except ==
    /\ app_pc = "query"
    /\ \E e \in InternalErrors :
          /\ exception' = Some(e)
          /\ response' = Some(HTTPException(500, Str(e)))
    /\ app_pc' = "responded"
    /\ UNCHANGED <<session_counter, sessions, request, session_id,
                   session_history, last_exchange, prev_failure, app_frame>>

\* POST /api/session/clear
clear_session ==
    /\ app_pc = "idle"
    /\ \E sid \in ClearSessionIds :
          /\ request' = Some([endpoint |-> "/api/session/clear", session_id |-> sid])
          /\ \/ /\ sessions' = SessionManager_clear_session(sessions, sid)
                /\ last_exchange' = Forget(last_exchange, sid)
                /\ response' = Some(SessionClearSuccess(sid))
                /\ UNCHANGED exception
             \/ \E e \in StoreErrors :
                   /\ exception' = Some(e)
                   /\ response' = Some(SessionClearFailure(sid, e))
                   /\ UNCHANGED <<sessions, last_exchange>>
    /\ app_pc' = "responded"
    /\ UNCHANGED <<session_counter, session_id, session_history, prev_failure,
                   app_frame>>

\* the response is sent and the handler's locals are gone
send_response ==
    /\ app_pc = "responded"
    /\ prev_failure' = IF Get(response).status_code = 500
                       THEN Some(Get(response).body)
                       ELSE prev_failure
    /\ app_pc' = "idle"
    /\ request' = None
    /\ session_id' = None
    /\ session_history' = None
    /\ response' = None
    /\ exception' = None
    /\ UNCHANGED <<session_counter, sessions, last_exchange, app_frame>>

AppNext ==
    \/ query_documents
    \/ query_documents_return
    \/ query_documents_except
    \/ clear_session
    \/ send_response

AppSpec == AppInit /\ [][AppNext]_vars


(***************************************************************************)
(* The search tool (CourseSearchTool) over the retrieval store.  One       *)
(* execute call per step; the registry's reset can come between calls.     *)
(***************************************************************************)
\* largest number of calls recorded
MaxSearches == 3

\* VectorStore(max_results=5)
max_results == 5

COURSE_TITLE == "Building Towards Computer Use with Anthropic"

\* the chunks of the populated store, by course title and lesson number
SampleChunks ==
    << [content |-> "Welcome to Building Toward Computer Use with Anthropic.",
        course_title |-> COURSE_TITLE, lesson_number |-> 0],
       [content |-> "This course covers tool calling, prompt caching, and computer use.",
        course_title |-> COURSE_TITLE, lesson_number |-> 0],
       [content |-> "In this lesson, you'll learn how to make basic API calls to Claude.",
        course_title |-> COURSE_TITLE, lesson_number |-> 1] >>

StoreContents == {<<>>, SampleChunks}

SearchQueries == {"API calls", "introduction"}

\* course_name: absent or a partial title
CourseNames == {None, Some("Building Towards Computer Use")}

\* lesson_number: absent, a lesson of the course, a lesson no course has
LessonNumbers == {None, Some(1), Some(999)}

StoreErrorTexts == {<<"Search failed due to database error">>}

\* the store's fuzzy match of a course name against a title
MatchesCourse(name, title) ==
    name = "Building Towards Computer Use" /\ title = COURSE_TITLE

RECURSIVE Reverse(_)
Reverse(seq) ==
    IF seq = <<>> THEN <<>> ELSE Append(Reverse(Tail(seq)), Head(seq))

\* the chunks in the order of their relevance to the query
Ranked(chunks, q) == IF q = "API calls" THEN Reverse(chunks) ELSE chunks

Take(seq, n) == IF Len(seq) > n THEN SubSeq(seq, 1, n) ELSE seq

\* store.search without an error: the hits, most relevant first
SearchHits(chunks, q, course_name, lesson_number) ==
    Take(SelectSeq(Ranked(chunks, q),
                   LAMBDA c :
                      /\ course_name # None => MatchesCourse(Get(course_name), c.course_title)
                      /\ lesson_number # None => c.lesson_number = Get(lesson_number)),
         max_results)

\* "CourseTitle - Lesson N"
Label(hit) == <<hit.course_title, " - Lesson ", ToString(hit.lesson_number)>>

\* store.get_lesson_link
LessonLink(hit) == Some(<<"https://learn.deeplearning.ai/lesson/", ToString(hit.lesson_number)>>)

SourceOf(hit) == [text |-> Label(hit), link |-> LessonLink(hit)]

SourcesOf(hits) == [i \in 1..Len(hits) |-> SourceOf(hits[i])]

\* variant: the sources of a search are added to those already there
RecordSources_Extend(old, hits) == old \o SourcesOf(hits)

\* self.last_sources = sources
RecordSources(old, hits) == SourcesOf(hits)

\* "[CourseTitle - Lesson N]\n<chunk text>"
FormatHit(hit) == <<"[">> \o Label(hit) \o <<"]\n", hit.content>>

RECURSIVE FormatResults(_)
FormatResults(hits) ==
    IF Len(hits) = 1 THEN FormatHit(hits[1])
    ELSE FormatResults(SubSeq(hits, 1, Len(hits) - 1)) \o <<"\n\n">>
         \o FormatHit(hits[Len(hits)])

\* variant: nothing found is answered with the empty string
NoResultsMessage_Empty(course_name, lesson_number) == <<>>

\* "No relevant content found", qualified by the filters that were applied
NoResultsMessage(course_name, lesson_number) ==
    <<"No relevant content found">>
    \o (IF course_name # None THEN <<" in course '", Get(course_name), "'">> ELSE <<>>)
    \o (IF lesson_number # None
        THEN <<" in lesson ", ToString(Get(lesson_number))>> ELSE <<>>)
    \o <<".">>

tool_frame == <<MAX_TOOL_ROUNDS, loopVars, concVars, appVars, legacyVars>>

ToolInit ==
    /\ MAX_TOOL_ROUNDS = MaxRoundsBound
    /\ LoopIdle
    /\ discipline = "threads"
    /\ ConcIdle
    /\ AppIdle
    /\ LegacyIdle
    /\ store_chunks \in StoreContents
    /\ searches = <<>>
    /\ tool_last_sources = <<>>

\* CourseSearchTool.execute(query, course_name, lesson_number)
execute ==
    /\ Len(searches) < MaxSearches
    /\ \E q \in SearchQueries, course_name \in CourseNames, lesson_number \in LessonNumbers :
          LET args == [query |-> q, course_name |-> course_name,
                       lesson_number |-> lesson_number]
              hits == SearchHits(store_chunks, q, course_name, lesson_number)
          IN  \/ \E err \in StoreErrorTexts :
                    /\ searches' = Append(searches,
                          [op |-> "execute", args |-> args, outcome |-> "error",
                           hits |-> <<>>, result |-> err])
                    /\ UNCHANGED tool_last_sources
              \/ /\ hits = <<>>
                 /\ searches' = Append(searches,
                          [op |-> "execute", args |-> args, outcome |-> "empty",
                           hits |-> <<>>,
                           result |-> NoResultsMessage(course_name, lesson_number)])
                 /\ UNCHANGED tool_last_sources
              \/ /\ hits # <<>>
                 /\ searches' = Append(searches,
                          [op |-> "execute", args |-> args, outcome |-> "hits",
                           hits |-> hits, result |-> FormatResults(hits)])
                 /\ tool_last_sources' = RecordSources(tool_last_sources, hits)
    /\ UNCHANGED <<store_chunks, tool_frame>>

\* ToolManager.reset_sources between two calls
tool_reset_sources ==
    /\ Len(searches) < MaxSearches
    /\ searches # <<>>
    /\ searches[Len(searches)].op = "execute"
    /\ searches' = Append(searches,
          [op |-> "reset", args |-> <<>>, outcome |-> "reset", hits |-> <<>>,
           result |-> <<>>])
    /\ tool_last_sources' = reset_sources(tool_last_sources)
    /\ UNCHANGED <<store_chunks, tool_frame>>

ToolNext ==
    \/ execute
    \/ tool_reset_sources

ToolSpec == ToolInit /\ [][ToolNext]_vars

(***************************************************************************)
(* Vocabulary of the properties.                                           *)
(***************************************************************************)
\* the tool-request blocks of a response content, in the order presented
Requests(content) == SelectSeq(content, LAMBDA b : b.type = "tool_use")

\* the tool-request blocks of the first n responses, in the order presented
RECURSIVE RequestsUpTo(_, _)
RequestsUpTo(resps, n) ==
    IF n = 0 THEN <<>>
    ELSE RequestsUpTo(resps, n - 1) \o Requests(resps[n].content)

\* the dispatcher calls that serve the given requests, one each, in order
CallsFor(reqs) ==
    [i \in 1..Len(reqs) |-> [name |-> reqs[i].name, input |-> reqs[i].input]]

\* the first n LLM responses of the run all request tools
AllRequestTools(n) ==
    /\ Len(api_responses) >= n
    /\ \A i \in 1..n : api_responses[i].stop_reason = "tool_use"

ReturnedToCaller == pc \in {"done", "collected", "recorded", "returned"}

Running == pc \in {"call", "execute_tools", "after_loop"}

\* the LLM calls whose response started a round of dispatch
DispatchRounds == { tool_calls[i].input.query[1] : i \in 1..Len(tool_calls) }

LastResponse == api_responses[Len(api_responses)]

(***************************************************************************)
(* C1.  When every one of the MAX_TOOL_ROUNDS in-budget responses requests *)
(* tools and a dispatcher is supplied, then once the last round is logged  *)
(* the next step of the run is one more LLM call; it carries neither tools *)
(* nor tool_choice; no tool is dispatched and no LLM call is made after    *)
(* it; and once it has answered the run has returned the text of that      *)
(* answer, whatever stop_reason the answer carries.  (A tool or an LLM     *)
(* call that raises ends the run before that: C9, C10.)                    *)
(***************************************************************************)
BudgetExhausted ==
    /\ MAX_TOOL_ROUNDS >= 1
    /\ tool_manager # None
    /\ AllRequestTools(MAX_TOOL_ROUNDS)

LastRoundLogged == BudgetExhausted /\ Len(messages) = 1 + 2 * MAX_TOOL_ROUNDS

C1_ForcedFinalCall ==
    /\ [](BudgetExhausted =>
            /\ Len(api_calls) <= MAX_TOOL_ROUNDS + 1
            /\ Len(api_calls) = MAX_TOOL_ROUNDS + 1 =>
                  /\ "tools" \notin DOMAIN api_calls[MAX_TOOL_ROUNDS + 1]
                  /\ "tool_choice" \notin DOMAIN api_calls[MAX_TOOL_ROUNDS + 1]
                  /\ api_calls[MAX_TOOL_ROUNDS + 1].messages = messages
                  /\ tool_calls = CallsFor(RequestsUpTo(api_responses, MAX_TOOL_ROUNDS))
            /\ ReturnedToCaller => Len(api_responses) = MAX_TOOL_ROUNDS + 1
            /\ Len(api_responses) = MAX_TOOL_ROUNDS + 1 =>
                  /\ ReturnedToCaller
                  /\ Len(api_calls) = MAX_TOOL_ROUNDS + 1
                  /\ returned = Some(LastResponse.content[1].text))
    /\ [](LastRoundLogged =>
            pc = "after_loop" \/ Len(api_calls) = MAX_TOOL_ROUNDS + 1)
    /\ [][LastRoundLogged /\ pc = "after_loop" =>
            /\ Len(api_calls') = MAX_TOOL_ROUNDS + 1
            /\ tool_calls' = tool_calls
            /\ pc' \in {"done", "raised"}]_vars

C1_Witness ==
    /\ BudgetExhausted
    /\ MAX_TOOL_ROUNDS >= 2
    /\ Truthy(tools)
    /\ pc = "done"
    /\ Len(api_responses) = MAX_TOOL_ROUNDS + 1
    /\ LastResponse.stop_reason = "tool_use"

(***************************************************************************)
(* C2.  Whatever the LLM and the tools answer, a run makes at most         *)
(* MAX_TOOL_ROUNDS + 1 LLM calls and dispatches tools in at most           *)
(* MAX_TOOL_ROUNDS rounds; the call number MAX_TOOL_ROUNDS + 1 is the last *)
(* thing the run does.                                                     *)
(***************************************************************************)
C2_BoundedCalls ==
    /\ Len(api_calls) <= MAX_TOOL_ROUNDS + 1
    /\ Cardinality(DispatchRounds) <= MAX_TOOL_ROUNDS
    /\ \A c \in DispatchRounds : c <= MAX_TOOL_ROUNDS
    /\ Len(api_calls) = MAX_TOOL_ROUNDS + 1 => ~Running

C2_Witness ==
    /\ MAX_TOOL_ROUNDS >= 2
    /\ Len(api_calls) = MAX_TOOL_ROUNDS + 1
    /\ Cardinality(DispatchRounds) = MAX_TOOL_ROUNDS
    /\ pc = "done"

(***************************************************************************)
(* C3.  A run that has started ends: it returns or an exception leaves it. *)
(* An exception leaves it only when an LLM call or a tool raised, so a run *)
(* in which neither raises returns; and what it returns is a text: the     *)
(* first text block of the last LLM response (which either signalled a     *)
(* final text or was the forced call), or one of the two fixed strings.    *)
(***************************************************************************)
ReturnsText ==
    /\ returned # None
    /\ \/ Get(returned) \in {NO_TOOL_MANAGER, NO_RESPONSE}
       \/ /\ api_responses # <<>>
          /\ LastResponse.content # <<>>
          /\ LastResponse.content[1].type = "text"
          /\ Get(returned) = LastResponse.content[1].text
          /\ \/ LastResponse.stop_reason # "tool_use"
             \/ Len(api_responses) = MAX_TOOL_ROUNDS + 1

C3_AlwaysTextAnswer ==
    /\ [](pc = "done" => ReturnsText)
    /\ [](pc = "raised" => Get(thrown) \in LLMErrors \cup ToolErrors)
    /\ (Running ~> (pc = "done" \/ pc = "raised"))

C3_Witness ==
    /\ pc = "done"
    /\ MAX_TOOL_ROUNDS >= 2
    /\ Len(api_responses) = MAX_TOOL_ROUNDS + 1
    /\ ReturnsText
    /\ thrown = None

(***************************************************************************)
(* C4.  A run that returns after R tool rounds, 1 <= R < MAX_TOOL_ROUNDS,  *)
(* followed by a text response has made exactly R + 1 LLM calls and has    *)
(* called the dispatcher exactly once per tool-request block of those R    *)
(* responses, with the block's name and input, in the order of the blocks. *)
(***************************************************************************)
RoundsThenText(R) ==
    /\ ReturnedToCaller
    /\ Len(api_responses) = R + 1
    /\ AllRequestTools(R)
    /\ LastResponse.stop_reason # "tool_use"

C4_CallsAndDispatchPerRound ==
    \A R \in 1..(MAX_TOOL_ROUNDS - 1) :
        RoundsThenText(R) =>
            /\ Len(api_calls) = R + 1
            /\ tool_calls = CallsFor(RequestsUpTo(api_responses, R))

C4_Witness ==
    /\ RoundsThenText(1)
    /\ MAX_TOOL_ROUNDS >= 2
    /\ Len(tool_calls) = 2
    /\ tool_calls[1].input # tool_calls[2].input

(***************************************************************************)
(* C5.  The message log handed to the LLM call that follows tool round k   *)
(* has 1 + 2k entries, starts with the user's literal query, and its roles *)
(* alternate user, assistant, user, ...                                    *)
(***************************************************************************)
C5_LogShape ==
    \A i \in 1..Len(api_calls) :
        LET log == api_calls[i].messages
        IN  /\ Len(log) = 1 + 2 * (i - 1)
            /\ log[1] = [role |-> "user", content |-> query]
            /\ \A j \in 1..Len(log) :
                  log[j].role = IF j % 2 = 1 THEN "user" ELSE "assistant"

C5_Witness ==
    /\ Len(api_calls) = 3
    /\ Len(api_calls[3].messages) = 5
    /\ api_calls[3].messages[5].content # <<>>

(***************************************************************************)
(* C6.  When an LLM call is issued after a tool round, the log it carries  *)
(* holds, for that round, the assistant message with the response content  *)
(* and right after it the user message with one tool_result per            *)
(* tool-request block, carrying the request's id, in the order of the      *)
(* requests.                                                               *)
(***************************************************************************)
C6_ResultPerRequest ==
    \A i \in 2..Len(api_calls) :
        LET log  == api_calls[i].messages
            reqs == Requests(api_responses[i - 1].content)
        IN  /\ Len(log) >= 2 * i - 1
            /\ log[2 * i - 2].content = api_responses[i - 1].content
            /\ Len(log[2 * i - 1].content) = Len(reqs)
            /\ \A j \in 1..Len(reqs) :
                  /\ log[2 * i - 1].content[j].type = "tool_result"
                  /\ log[2 * i - 1].content[j].tool_use_id = reqs[j].id

C6_Witness ==
    /\ Len(api_calls) = 2
    /\ Len(Requests(api_responses[1].content)) = 2
    /\ Len(api_calls[2].messages[3].content) = 2

(***************************************************************************)
(* C7.  When the first LLM response is a final text, the run has made one  *)
(* LLM call, has not called the dispatcher, has returned that text in      *)
(* round 0, and the coordinator returns it with empty sources.             *)
(***************************************************************************)
FirstResponseIsText ==
    /\ api_responses # <<>>
    /\ api_responses[1].stop_reason # "tool_use"

C7_FastPath ==
    FirstResponseIsText =>
        /\ ReturnedToCaller
        /\ Len(api_calls) = 1
        /\ tool_calls = <<>>
        /\ round_num = 0
        /\ returned = Some(api_responses[1].content[1].text)
        /\ pc = "returned" =>
              Get(query_result) =
                  [answer |-> api_responses[1].content[1].text, sources |-> <<>>]

C7_Witness ==
    /\ FirstResponseIsText
    /\ pc = "returned"
    /\ api_responses[1].stop_reason = "max_tokens"

(***************************************************************************)
(* C8.  When an LLM response requests tools and no tool_manager was        *)
(* supplied, the run has returned the fixed sentinel, the log still holds  *)
(* the seed message only, no tool was dispatched and one LLM call was made.*)
(***************************************************************************)
ToolsRequestedWithoutManager ==
    /\ tool_manager = None
    /\ api_responses # <<>>
    /\ LastResponse.stop_reason = "tool_use"

C8_NoDispatcherSentinel ==
    ToolsRequestedWithoutManager =>
        /\ pc = "done"
        /\ returned = Some(NO_TOOL_MANAGER)
        /\ messages = <<[role |-> "user", content |-> query]>>
        /\ tool_calls = <<>>
        /\ Len(api_calls) = 1
        /\ Len(api_responses) = 1

C8_Witness ==
    /\ ToolsRequestedWithoutManager
    /\ Truthy(tools)
    /\ MAX_TOOL_ROUNDS >= 2
    /\ Requests(LastResponse.content) # <<>>

(***************************************************************************)
(* C9.  When an LLM call raises, the run is over: the exception that       *)
(* leaves generate_response is the one the call raised, nothing is         *)
(* returned, the failing call is the last LLM call, and the next step is   *)
(* the caller's, not a retry or a dispatch.                                *)
(***************************************************************************)
LLMCallFailed == thrown # None /\ Get(thrown) \in LLMErrors

C9_LLMFailurePropagates ==
    /\ [](LLMCallFailed =>
            /\ pc = "raised"
            /\ raised = thrown
            /\ returned = None
            /\ Len(api_calls) = Len(api_responses) + 1)
    /\ [][LLMCallFailed => pc' = "idle" /\ api_calls' = <<>> /\ tool_calls' = <<>>]_vars

C9_Witness ==
    /\ LLMCallFailed
    /\ MAX_TOOL_ROUNDS >= 2
    /\ Len(api_calls) = MAX_TOOL_ROUNDS + 1
    /\ Get(raised) = "RateLimitError"

(***************************************************************************)
(* C10.  When a tool raises during a round, the exception that leaves      *)
(* generate_response is the one the tool raised, nothing is returned, the  *)
(* blocks after the raising one are not dispatched, the log ends with the  *)
(* assistant message of the round (no tool-result message), and no LLM     *)
(* call follows.                                                           *)
(***************************************************************************)
ToolFailed == thrown # None /\ Get(thrown) \in ToolErrors

C10_ToolFailurePropagates ==
    /\ [](ToolFailed =>
            LET n == Len(api_responses)
            IN  /\ pc = "raised"
                /\ raised = thrown
                /\ returned = None
                /\ Len(api_calls) = n
                /\ Len(messages) = 2 * n
                /\ messages[2 * n] = [role |-> "assistant", content |-> LastResponse.content]
                /\ tool_calls =
                      CallsFor(RequestsUpTo(api_responses, n - 1)
                               \o Requests(SubSeq(LastResponse.content, 1, block_idx))))
    /\ [][ToolFailed => pc' = "idle" /\ api_calls' = <<>> /\ tool_calls' = <<>>]_vars

C10_Witness ==
    /\ ToolFailed
    /\ Len(api_responses) = 2
    /\ block_idx = 1
    /\ Len(Requests(LastResponse.content)) = 2

(***************************************************************************)
(* C11.  The message log of a run is append-only: the run starts with a    *)
(* log of exactly one user entry holding the literal query; every later    *)
(* step of the run leaves the entries already logged where and as they     *)
(* are and at most adds entries at the end; so the first entry is the seed *)
(* query for as long as the run lasts.                                     *)
(***************************************************************************)
InRun == pc # "idle"

IsPrefix(s, t) == Len(s) <= Len(t) /\ SubSeq(t, 1, Len(s)) = s

C11_AppendOnlyLog ==
    /\ [](InRun =>
            /\ messages # <<>>
            /\ messages[1] = [role |-> "user", content |-> query])
    /\ [][~InRun /\ InRun' =>
            messages' = <<[role |-> "user", content |-> query']>>]_vars
    /\ [][InRun /\ InRun' => IsPrefix(messages, messages')]_vars

C11_Witness ==
    /\ pc = "done"
    /\ Len(messages) = 5
    /\ messages[1] = [role |-> "user", content |-> query]
    /\ api_calls[1].messages = <<messages[1]>>

(***************************************************************************)
(* C12.  The system content of a run holds the label "Previous             *)
(* conversation:" exactly when the history argument is a non-empty string; *)
(* then the history follows the label; for an absent or an empty history   *)
(* the system content is the base instructions and nothing else.           *)
(***************************************************************************)
HistoryLabel == "\n\nPrevious conversation:\n"

\* the positions of the label in a string
LabelAt(s) == { i \in 1..Len(s) : s[i] = HistoryLabel }

NonEmptyHistory == conversation_history # None /\ Get(conversation_history) # <<>>

C12_HistoryLabelIffHistory ==
    InRun =>
        /\ LabelAt(system_content) # {} <=> NonEmptyHistory
        /\ \A i \in LabelAt(system_content) :
              SubSeq(system_content, i + 1, Len(system_content)) # <<>>
        /\ ~NonEmptyHistory => system_content = SYSTEM_PROMPT
        /\ \A i \in 1..Len(api_calls) : api_calls[i].system = system_content

C12_Witness ==
    /\ conversation_history = Some(<<>>)
    /\ pc = "done"
    /\ Len(api_calls) >= 2
    /\ api_calls[1].system = SYSTEM_PROMPT

(***************************************************************************)
(* C13.  In a run with a non-empty history every LLM call, the call after  *)
(* the loop included, is given one and the same system content: the base   *)
(* instructions, the label "Previous conversation:" and the history text.  *)
(***************************************************************************)
C13_SameSystemContentEveryCall ==
    NonEmptyHistory =>
        \A i \in 1..Len(api_calls) :
            api_calls[i].system =
                SYSTEM_PROMPT \o <<HistoryLabel>> \o Get(conversation_history)

C13_Witness ==
    /\ NonEmptyHistory
    /\ MAX_TOOL_ROUNDS >= 2
    /\ Len(api_calls) = MAX_TOOL_ROUNDS + 1
    /\ "tools" \notin DOMAIN api_calls[MAX_TOOL_ROUNDS + 1]
    /\ pc = "done"

(***************************************************************************)
(* C14.  An in-budget LLM call (one of the first MAX_TOOL_ROUNDS calls of  *)
(* the run, the last of them included) carries the tool schemas and        *)
(* tool_choice auto when the tools argument is a non-empty list, and       *)
(* carries neither when the argument is absent or empty.                   *)
(***************************************************************************)
NonEmptyTools == tools # None /\ Get(tools) # <<>>

InBudgetCalls == { i \in 1..Len(api_calls) : i <= MAX_TOOL_ROUNDS }

C14_ToolsIffToolSpecs ==
    \A i \in InBudgetCalls :
        IF NonEmptyTools
        THEN /\ "tools" \in DOMAIN api_calls[i]
             /\ "tool_choice" \in DOMAIN api_calls[i]
             /\ api_calls[i].tools = Get(tools)
             /\ api_calls[i].tool_choice = [type |-> "auto"]
        ELSE /\ "tools" \notin DOMAIN api_calls[i]
             /\ "tool_choice" \notin DOMAIN api_calls[i]

C14_Witness ==
    /\ NonEmptyTools
    /\ MAX_TOOL_ROUNDS >= 2
    /\ Len(api_calls) = MAX_TOOL_ROUNDS
    /\ "tools" \in DOMAIN api_calls[MAX_TOOL_ROUNDS]
    /\ pc = "done"

(***************************************************************************)
(* C15.  The message log and the round counter belong to the call: for     *)
(* every interleaving of two queries on the one generator, the log an LLM  *)
(* call of a query is given is that query's seed message followed by the   *)
(* assistant and tool-result messages of that query's own earlier rounds,  *)
(* and every query has its own MAX_TOOL_ROUNDS in-budget calls: it leaves  *)
(* the loop without an answer only after MAX_TOOL_ROUNDS calls of its own, *)
(* and makes at most one call more.                                        *)
(***************************************************************************)
\* the log query t hands to its k-th LLM call when only itself wrote it
OwnLog(t, k) ==
    SeedMessages(QueryOf(t)) \o SubSeq(c_trace[t].rounds, 1, 2 * (k - 1))

C15_PerCallLogAndCounter ==
    \A t \in Threads :
        /\ \A k \in 1..Len(c_trace[t].calls) : c_trace[t].calls[k] = OwnLog(t, k)
        /\ Len(c_trace[t].calls) <= MAX_TOOL_ROUNDS + 1
        /\ c_pc[t] = "call" => Len(c_trace[t].calls) < MAX_TOOL_ROUNDS
        /\ c_pc[t] = "after_loop" =>
              /\ Len(c_trace[t].calls) = MAX_TOOL_ROUNDS
              /\ Len(c_trace[t].rounds) = 2 * MAX_TOOL_ROUNDS

C15_Witness ==
    /\ discipline = "threads"
    /\ \A t \in Threads :
          /\ c_pc[t] = "done"
          /\ c_trace[t].overlapped
          /\ Len(c_trace[t].calls) = 3
          /\ Len(c_trace[t].calls[3]) = 5

(***************************************************************************)
(* C16.  Two threads that serve queries against the one shared registry    *)
(* without mutual exclusion can return wrong sources: a query can return   *)
(* the sources another query's search recorded, or nothing although its    *)
(* own search had hits.  Whenever the sources a query returns are not the  *)
(* ones its own searches recorded, the registry was shared without mutual  *)
(* exclusion, another query wrote it between this query's reset and        *)
(* collect, and what is returned is empty or another query's sources.      *)
(***************************************************************************)
Collected(t) == c_pc[t] = "returned"

WrongSources(t) == Collected(t) /\ Get(c_trace[t].collected) # c_trace[t].recorded

C16_SharedRegistryRace ==
    \A t \in Threads :
        WrongSources(t) =>
            /\ discipline = "threads"
            /\ c_trace[t].overlapped
            /\ \/ Get(c_trace[t].collected) = <<>>
               \/ \E u \in Threads \ {t} :
                     Get(c_trace[t].collected) = c_trace[u].recorded

\* a query returns the sources of the other query's search
C16_Witness ==
    /\ discipline = "threads"
    /\ \E t \in Threads, u \in Threads :
          /\ t # u
          /\ WrongSources(t)
          /\ Get(c_trace[t].collected) # <<>>
          /\ Get(c_trace[t].collected) = c_trace[u].recorded
          /\ c_trace[t].recorded # c_trace[u].recorded

\* a query returns no sources although its own search had hits
C16_WitnessEmptied ==
    /\ discipline = "threads"
    /\ \E t \in Threads :
          /\ WrongSources(t)
          /\ Get(c_trace[t].collected) = <<>>
          /\ c_trace[t].recorded # <<>>

(***************************************************************************)
(* C17.  When a query runs reset, loop and collect as one critical section,*)
(* or works with a registry of its own, the sources it returns are the     *)
(* sources its own searches recorded (none when it searched nothing),      *)
(* whatever the other queries do; and under the critical section no other  *)
(* query writes a registry while it is in flight.                          *)
(***************************************************************************)
C17_SerializedOrOwnRegistry ==
    discipline \in {"critical_section", "own_registry"} =>
        \A t \in Threads :
            /\ Collected(t) => Get(c_trace[t].collected) = c_trace[t].recorded
            /\ discipline = "critical_section" =>
                  /\ ~c_trace[t].overlapped
                  /\ InFlight(t) => lock = t

C17_Witness ==
    /\ discipline = "own_registry"
    /\ \A t \in Threads :
          /\ Collected(t)
          /\ c_trace[t].overlapped
          /\ Get(c_trace[t].collected) = c_trace[t].recorded
    /\ c_trace[1].recorded # <<>>
    /\ c_trace[2].recorded = <<>>

(***************************************************************************)
(* C18.  The coordinator serves a query in this order: it resets the       *)
(* registry's sources, runs the loop with the registry's schemas and the   *)
(* registry as dispatcher, and only when the loop has returned collects    *)
(* the sources, then appends the (query, answer) pair to the session       *)
(* history, then returns (answer, sources).                                *)
(***************************************************************************)
ServedByCoordinator == caller = "rag"

Exchange == [query |-> query, answer |-> Get(returned)]

C18_CoordinatorOrder ==
    ServedByCoordinator =>
        /\ tools = Some(ToolDefinitions)
        /\ tool_manager = TOOL_MANAGER
        /\ tool_calls = <<>> => last_sources = <<>>
        /\ Running => rag_sources = None
        /\ rag_sources # None => returned # None /\ rag_sources = Some(last_sources)
        /\ exchanges # <<>> => rag_sources # None /\ exchanges = <<Exchange>>
        /\ query_result # None =>
              /\ exchanges # <<>>
              /\ query_result =
                    Some([answer |-> Get(returned), sources |-> Get(rag_sources)])
        /\ pc = "returned" => query_result # None

C18_Witness ==
    /\ ServedByCoordinator
    /\ pc = "returned"
    /\ Len(api_calls) = 3
    /\ Get(query_result).sources # <<>>
    /\ Len(exchanges) = 1

(***************************************************************************)
(* C19.  The sources the coordinator returns for a query are the sources   *)
(* recorded by that query's own tool invocations, whatever the registry    *)
(* held from earlier queries: a query that dispatched no tool returns      *)
(* empty sources even when the registry still held sources on entry.       *)
(***************************************************************************)
\* what the dispatches of this query left in the registry: every search
\* that returned overwrote the sources with its own
RecordedSources ==
    IF tool_calls = <<>>
    THEN <<>>
    ELSE <<Source(tool_calls[Len(tool_calls)].input)>>

C19_NoSourceLeak ==
    query_result # None => Get(query_result).sources = RecordedSources

C19_Witness ==
    /\ query_result # None
    /\ stale_sources # <<>>
    /\ tool_calls = <<>>
    /\ Get(query_result).sources = <<>>

(***************************************************************************)
(* C20.  The coordinator either returns a complete (answer, sources) pair, *)
(* the answer being the text the loop returned, or lets the exception that *)
(* left the loop through unchanged: in that case nothing is returned,      *)
(* no sources are collected, no (query, answer) pair is appended to the    *)
(* session history, and the next step is the caller's.                     *)
(***************************************************************************)
LoopRaised == ServedByCoordinator /\ raised # None

C20_CompleteOrError ==
    /\ [](LoopRaised =>
            /\ raised = thrown
            /\ returned = None
            /\ query_result = None
            /\ rag_sources = None
            /\ exchanges = <<>>)
    /\ [](ServedByCoordinator /\ query_result # None =>
            /\ raised = None
            /\ DOMAIN Get(query_result) = {"answer", "sources"}
            /\ ReturnsText
            /\ Get(query_result).answer = Get(returned)
            /\ Get(query_result).sources = Get(rag_sources))
    /\ [][LoopRaised => pc' = "idle" /\ exchanges' = <<>>]_vars

C20_Witness ==
    /\ LoopRaised
    /\ Len(api_calls) = 3
    /\ Get(raised) \in LLMErrors
    /\ last_sources # <<>>

(***************************************************************************)
(* C25.  Dispatching a tool name that is not registered returns a string   *)
(* containing "not found" and raises nothing; inside a tool round the loop *)
(* hands that string back as the content of that request's tool-result     *)
(* block, appends the round to the log and goes on to the next LLM call.   *)
(***************************************************************************)
NothingRegistered == tool_manager = Some({})

\* the pieces of a string, as a set
Pieces(str) == { str[i] : i \in 1..Len(str) }

\* the tool-result blocks of the round being built and of the rounds logged
HandedBack ==
    { tool_results[i] : i \in 1..Len(tool_results) }
    \cup UNION { { messages[k].content[i] : i \in 1..Len(messages[k].content) } :
                   k \in { j \in 2..Len(messages) : messages[j].role = "user" } }

C25_UnknownToolHandedBack ==
    /\ [](NothingRegistered =>
            /\ \A o \in UNION { execute_tool(Get(tool_manager), n, [query |-> <<>>]) :
                                   n \in {SEARCH_TOOL, "nonexistent_tool"} } :
                  o.kind = "return" /\ "' not found" \in Pieces(o.value)
            /\ thrown \notin { Some(e) : e \in ToolErrors }
            /\ Len(tool_calls) = Cardinality(HandedBack)
            /\ \A b \in HandedBack :
                  /\ b.type = "tool_result"
                  /\ "' not found" \in Pieces(b.content)
                  /\ \E i \in 1..Len(tool_calls) :
                        b.content = <<"Tool '", tool_calls[i].name, "' not found">>)
    /\ [][NothingRegistered /\ pc = "execute_tools" /\ pc' # "execute_tools" =>
            /\ messages' = Append(messages, UserMessage(tool_results))
            /\ pc' = "call" \/ (pc' = "after_loop" /\ NeedsFinalCall')]_vars
    /\ [][NothingRegistered /\ pc \in {"call", "after_loop"} /\ tool_calls # <<>> =>
            Len(api_calls') = Len(api_calls) + 1]_vars

C25_Witness ==
    /\ NothingRegistered
    /\ pc = "done"
    /\ Len(tool_calls) = 2
    /\ Len(api_calls) = 2
    /\ Len(messages) = 3
    /\ api_responses[2].stop_reason = "end_turn"

(***************************************************************************)
(* C26.  Whatever was dispatched before, resetting the registry's sources  *)
(* and then collecting them yields the empty list: in every reachable      *)
(* state of the registry, and at the step where the coordinator resets.    *)
(***************************************************************************)
ResetThenCollect(sources) == get_last_sources(reset_sources(sources))

C26_ResetThenCollectEmpty ==
    /\ [](ResetThenCollect(last_sources) = <<>>)
    /\ [][caller = "none" /\ caller' = "rag" =>
            get_last_sources(last_sources') = <<>>]_vars

C26_Witness ==
    /\ caller = "rag"
    /\ pc = "call"
    /\ api_calls = <<>>
    /\ stale_sources # <<>>
    /\ get_last_sources(last_sources) = <<>>

(***************************************************************************)
(* C29.  When the budget is exhausted (every in-budget response requested  *)
(* tools), the requests of the last in-budget round are dispatched and     *)
(* logged like those of any round; the forced final call is issued with a  *)
(* log of exactly 1 + 2 * MAX_TOOL_ROUNDS entries, the last but one being  *)
(* the last round's assistant message with its tool requests and the last  *)
(* a user message of that round's tool results; and the final call's own   *)
(* response is never appended to the log.                                  *)
(***************************************************************************)
FinalCallMade == BudgetExhausted /\ Len(api_calls) = MAX_TOOL_ROUNDS + 1

FinalLog == api_calls[MAX_TOOL_ROUNDS + 1].messages

C29_BudgetExhaustionLog ==
    /\ [](FinalCallMade =>
            /\ tool_calls = CallsFor(RequestsUpTo(api_responses, MAX_TOOL_ROUNDS))
            /\ Len(FinalLog) = 1 + 2 * MAX_TOOL_ROUNDS
            /\ FinalLog[2 * MAX_TOOL_ROUNDS] =
                  [role |-> "assistant",
                   content |-> api_responses[MAX_TOOL_ROUNDS].content]
            /\ FinalLog[1 + 2 * MAX_TOOL_ROUNDS].role = "user"
            /\ LET results == FinalLog[1 + 2 * MAX_TOOL_ROUNDS].content
                   reqs == Requests(api_responses[MAX_TOOL_ROUNDS].content)
               IN  /\ Len(results) = Len(reqs)
                   /\ \A i \in 1..Len(results) :
                         /\ results[i].type = "tool_result"
                         /\ results[i].tool_use_id = reqs[i].id
            /\ messages = FinalLog
            /\ Len(api_responses) = MAX_TOOL_ROUNDS + 1 =>
                  Len(messages) = 1 + 2 * MAX_TOOL_ROUNDS)
    /\ [][BudgetExhausted /\ Len(api_calls') = MAX_TOOL_ROUNDS + 1 =>
            messages' = messages]_vars

C29_Witness ==
    /\ FinalCallMade
    /\ MAX_TOOL_ROUNDS = 2
    /\ pc = "done"
    /\ Len(api_responses) = 3
    /\ Len(messages) = 5
    /\ Len(tool_calls) = 4
    /\ messages[5].role = "user"

(***************************************************************************)
(* C30.  The run returns the fallback "No response generated" exactly when *)
(* MAX_TOOL_ROUNDS is 0, and then without a single LLM call.  With         *)
(* MAX_TOOL_ROUNDS >= 1 the code after the loop is reached only with a     *)
(* response that requested tools, so the fallback branch is never taken:   *)
(* whatever is returned is the text of an LLM response or the              *)
(* no-tool-manager message.  (The texts the LLM answers with are not the   *)
(* fallback string itself.)                                                *)
(***************************************************************************)
LLMTexts ==
    { api_responses[i].content[1].text :
        i \in { j \in 1..Len(api_responses) :
                  /\ api_responses[j].content # <<>>
                  /\ api_responses[j].content[1].type = "text" } }

C30_FallbackIffZeroRounds ==
    /\ [](returned # None =>
            (returned = Some(NO_RESPONSE) <=> MAX_TOOL_ROUNDS = 0))
    /\ [](returned = Some(NO_RESPONSE) => api_calls = <<>> /\ tool_calls = <<>>)
    /\ [](InRun /\ MAX_TOOL_ROUNDS = 0 =>
            /\ api_calls = <<>>
            /\ raised = None
            /\ pc = "after_loop" => current_response = None /\ ~NeedsFinalCall)
    /\ [](MAX_TOOL_ROUNDS >= 1 =>
            /\ pc = "after_loop" => NeedsFinalCall
            /\ returned # None =>
                  Get(returned) \in LLMTexts \cup {NO_TOOL_MANAGER})
    /\ [][MAX_TOOL_ROUNDS = 0 /\ pc = "after_loop" =>
            pc' = "done" /\ returned' = Some(NO_RESPONSE)]_vars

C30_Witness ==
    /\ MAX_TOOL_ROUNDS = 0
    /\ pc = "done"
    /\ returned = Some(NO_RESPONSE)
    /\ api_calls = <<>>
    /\ Truthy(tools)
    /\ tool_manager = TOOL_MANAGER

(***************************************************************************)
(* C21.  An exception that leaves the coordinator is answered by the       *)
(* request layer with a generic failure response: the status is 500 and    *)
(* the body does not depend on the internal error, so the body of a        *)
(* failing query equals the body of any earlier failing query, whatever    *)
(* the messages of the two exceptions.                                     *)
(***************************************************************************)
QueryFailed ==
    /\ app_pc = "responded"
    /\ Get(request).endpoint = "/api/query"
    /\ exception # None

C21_GenericFailureResponse ==
    QueryFailed =>
        /\ Get(response).status_code = 500
        /\ prev_failure # None => Get(response).body = Get(prev_failure)

(***************************************************************************)
(* C22.  Session id resolution of the query endpoint.  A request that      *)
(* carries a (non-empty) session_id is processed under that id and the     *)
(* response carries the same id; create_session is not called for it.  A   *)
(* request without one gets an id generated, by one call of                *)
(* create_session, before the query is processed, and the response         *)
(* carries the generated id.                                               *)
(***************************************************************************)
ServingQuery ==
    /\ app_pc \in {"query", "responded"}
    /\ Get(request).endpoint = "/api/query"

Answered == app_pc = "responded" /\ Get(response).status_code = 200

C22_SessionIdResolution ==
    /\ [](ServingQuery =>
            /\ Truthy(session_id)
            /\ Truthy(Get(request).session_id) => session_id = Get(request).session_id
            /\ ~Truthy(Get(request).session_id) =>
                  /\ session_id = Some(SessionId(session_counter))
                  /\ Get(session_id) \in DOMAIN sessions
            /\ Answered => Get(response).body.session_id = Get(session_id))
    /\ [][app_pc = "idle" /\ app_pc' = "query" =>
            IF Truthy(Get(request').session_id)
            THEN /\ session_counter' = session_counter
                 /\ sessions' = sessions
            ELSE /\ session_counter' = session_counter + 1
                 /\ DOMAIN sessions' = DOMAIN sessions \cup {Get(session_id')}
                 /\ sessions'[Get(session_id')] = <<>>]_vars
    /\ [][app_pc # "idle" => session_counter' = session_counter]_vars

C22_Witness ==
    /\ ServingQuery
    /\ Answered
    /\ Get(request).session_id = Some(SessionId(1))
    /\ Get(response).body.session_id = SessionId(1)
    /\ session_counter = 1
    /\ Len(sessions[SessionId(1)]) = 2

(***************************************************************************)
(* C23.  Within a session, the history handed to the loop for a query      *)
(* contains the exchange of the session's previous answered query; the     *)
(* first query of a session is handed an empty history; and an exchange is *)
(* recorded only at the step where the loop has returned its answer, as    *)
(* the (query, answer) pair of the request being served.                   *)
(***************************************************************************)
IsSuffix(s, t) == Len(s) <= Len(t) /\ SubSeq(t, Len(t) - Len(s) + 1, Len(t)) = s

\* the session being served has an answered query behind it
HasPrevious ==
    /\ Get(session_id) \in DOMAIN last_exchange
    /\ last_exchange[Get(session_id)] # None

\* the sessions whose retained exchanges are extended or replaced by a step
Recorded ==
    { s \in DOMAIN sessions' :
        /\ sessions'[s] # <<>>
        /\ s \in DOMAIN sessions => sessions'[s] # sessions[s] }

C23_HistoryAcrossQueries ==
    /\ [](app_pc = "query" =>
            IF HasPrevious
            THEN /\ Truthy(session_history)
                 /\ IsSuffix(FormatExchange(Get(last_exchange[Get(session_id)])),
                             Get(session_history))
            ELSE session_history = None)
    /\ [][Recorded # {} =>
            /\ app_pc = "query"
            /\ app_pc' = "responded"
            /\ Get(response').status_code = 200
            /\ Recorded = {Get(session_id)}
            /\ LET exs == sessions'[Get(session_id)]
               IN  exs[Len(exs)] = [query |-> Get(request).query,
                                    answer |-> Get(response').body.answer]]_vars
    /\ [][app_pc = "idle" /\ app_pc' = "query" =>
            session_history' =
               get_conversation_history(sessions', Get(session_id'))]_vars

C23_Witness ==
    /\ app_pc = "query"
    /\ session_id = Some(<<"test-session-123">>)
    /\ HasPrevious
    /\ Len(sessions[Get(session_id)]) = MAX_HISTORY
    /\ sessions[Get(session_id)][1].query # sessions[Get(session_id)][2].query
    /\ Get(last_exchange[Get(session_id)]).query = <<"Tell me more">>
    /\ Get(request).query = <<"What is an API?">>

(***************************************************************************)
(* C24.  The session-clear endpoint always answers with status 200 and a   *)
(* body made of a success flag and a non-empty message, and never lets an  *)
(* error through: clearing an id the store does not know succeeds and      *)
(* changes no session, and when the store raises the answer is             *)
(* success = false with a message.                                         *)
(***************************************************************************)
ClearAnswered ==
    /\ app_pc = "responded"
    /\ Get(request).endpoint = "/api/session/clear"

C24_SessionClearNeverFails ==
    /\ [](ClearAnswered =>
            /\ Get(response).status_code = 200
            /\ DOMAIN Get(response).body = {"success", "message"}
            /\ Get(response).body.success \in BOOLEAN
            /\ Get(response).body.message # <<>>
            /\ Get(response).body.success <=> exception = None
            /\ exception # None =>
                  IsSuffix(Str(Get(exception)), Get(response).body.message))
    /\ [][app_pc = "idle" /\ app_pc' = "responded" =>
            /\ (Get(request').session_id \notin DOMAIN sessions /\ exception' = None) =>
                  Get(response').body.success /\ sessions' = sessions
            /\ exception' # None => sessions' = sessions
            /\ (Get(request').session_id \in DOMAIN sessions /\ exception' = None) =>
                  /\ sessions'[Get(request').session_id] = <<>>
                  /\ DOMAIN sessions' = DOMAIN sessions]_vars

C24_Witness ==
    /\ ClearAnswered
    /\ Get(request).session_id = <<"test-session-123">>
    /\ Get(request).session_id \in DOMAIN sessions
    /\ sessions[Get(request).session_id] # <<>>
    /\ exception # None
    /\ ~Get(response).body.success

(***************************************************************************)
(* C27.  A search whose filters match no chunk of the store, and any       *)
(* search on an empty store, is answered (the store reporting no error)    *)
(* with a non-empty string that contains "No relevant content"; the        *)
(* outcome is a returned text, never the empty string.                     *)
(***************************************************************************)
Executed == { i \in 1..Len(searches) : searches[i].op = "execute" }

\* no chunk of the store passes the filters of the call
NoChunkMatches(args) ==
    \A k \in 1..Len(store_chunks) :
       \/ /\ args.course_name # None
          /\ ~MatchesCourse(Get(args.course_name), store_chunks[k].course_title)
       \/ /\ args.lesson_number # None
          /\ store_chunks[k].lesson_number # Get(args.lesson_number)

Max(S) == CHOOSE x \in S : \A y \in S : y <= x

LastReset == Max({0} \cup { i \in 1..Len(searches) : searches[i].op = "reset" })

Successful == { i \in Executed : i > LastReset /\ searches[i].outcome = "hits" }

C28_SourcesOfLatestSearch ==
    LET collected == get_last_sources(tool_last_sources)
    IN  IF Successful = {}
        THEN collected = <<>>
        ELSE LET hits == searches[Max(Successful)].hits
             IN  /\ Len(collected) = Len(hits)
                 /\ \A k \in 1..Len(hits) :
                       collected[k].text =
                          <<hits[k].course_title, " - Lesson ",
                            ToString(hits[k].lesson_number)>>

C28_Witness ==
    /\ Len(searches) = 3
    /\ searches[1].outcome = "hits"
    /\ searches[2].outcome = "hits"
    /\ searches[3].outcome = "empty"
    /\ Len(searches[1].hits) = 1
    /\ Len(searches[2].hits) = 3
    /\ searches[2].hits[1] = SampleChunks[3]
    /\ Len(tool_last_sources) = 3
    /\ tool_last_sources[1].text = Label(SampleChunks[3])

(***************************************************************************)
(* C31.  While the run is inside the loop, 0 <= round_num <                *)
(* MAX_TOOL_ROUNDS.  Within a run round_num never decreases and is never   *)
(* reset; it grows by exactly one, and only when a tool round is           *)
(* completed and the loop continues.  The LLM call issued in the loop with *)
(* round_num = r is call number r + 1: from that call on, for the rest of  *)
(* the round, the number of LLM calls issued inside the loop is            *)
(* round_num + 1 (at the head of the round, before the call, it is         *)
(* round_num).                                                             *)
(***************************************************************************)
InLoop == pc \in {"call", "execute_tools"}

\* the LLM calls issued inside the loop: all but the call after the loop
InLoopCalls ==
    IF Len(api_calls) > MAX_TOOL_ROUNDS THEN MAX_TOOL_ROUNDS ELSE Len(api_calls)

NoRequests(resp) == Requests(resp.content) = <<>>

EmptyRound ==
    /\ pc = "execute_tools"
    /\ NoRequests(Get(current_response))

C32_EmptyToolRound ==
    /\ [][(pc = "call" /\ pc' = "execute_tools") =>
            messages' = Append(messages,
                               [role |-> "assistant",
                                content |-> Get(current_response').content])]_vars
    /\ [][EmptyRound =>
            /\ tool_calls' = tool_calls
            /\ tool_results' = <<>>
            /\ pc' \in {"execute_tools", "call", "after_loop"}
            /\ pc' # "execute_tools" =>
                  /\ messages' = Append(messages, [role |-> "user", content |-> <<>>])
                  /\ \/ pc' = "call" /\ round_num' = round_num + 1
                     \/ pc' = "after_loop" /\ NeedsFinalCall']_vars
    /\ [][(pc \in {"call", "after_loop"} /\ messages # <<>>
            /\ messages[Len(messages)] = [role |-> "user", content |-> <<>>]) =>
            Len(api_calls') = Len(api_calls) + 1]_vars
    /\ []((h_pc = "done" /\ NoRequests(Get(h_initial_response))) =>
            /\ h_tool_calls = <<>>
            /\ Len(h_api_calls) = 1
            /\ h_api_calls[1].messages =
                  Append(Get(h_base_params).messages,
                         [role |-> "assistant",
                          content |-> Get(h_initial_response).content]))

C32_Witness ==
    /\ pc = "done"
    /\ MAX_TOOL_ROUNDS = 2
    /\ Len(api_responses) = 2
    /\ api_responses[1].stop_reason = "tool_use"
    /\ api_responses[1].content = <<TextBlock(1, 1)>>
    /\ tool_calls = <<>>
    /\ Len(messages) = 3
    /\ messages[3] = [role |-> "user", content |-> <<>>]

(***************************************************************************)
(* C33.  In a tool round whose response mixes text blocks and tool-request *)
(* blocks, a text block produces neither a dispatch nor a result; every    *)
(* tool_use block produces one result block carrying its id, in the order  *)
(* of the blocks; and the assistant message logged for the round holds the *)
(* full content of the response, text blocks included, in the original     *)
(* order.                                                                  *)
(***************************************************************************)
\* the rounds whose assistant message is in the log
RoundsOpened == Len(messages) \div 2

\* the rounds whose user message is in the log as well
RoundsLogged == (Len(messages) - 1) \div 2

C33_MixedContentRound ==
    /\ [](InRun =>
            /\ \A k \in 1..RoundsOpened :
                  messages[2 * k] =
                     [role |-> "assistant", content |-> api_responses[k].content]
            /\ \A k \in 1..RoundsLogged :
                  LET results == messages[2 * k + 1].content
                      reqs == Requests(api_responses[k].content)
                  IN  /\ Len(results) = Len(reqs)
                      /\ \A i \in 1..Len(reqs) :
                            /\ results[i].type = "tool_result"
                            /\ results[i].tool_use_id = reqs[i].id
            /\ ReturnedToCaller =>
                  tool_calls = CallsFor(RequestsUpTo(api_responses, RoundsLogged)))
    /\ [][(pc = "execute_tools"
            /\ block_idx <= Len(Get(current_response).content)
            /\ Get(current_response).content[block_idx].type = "text") =>
            /\ tool_calls' = tool_calls
            /\ tool_results' = tool_results
            /\ block_idx' = block_idx + 1
            /\ pc' = "execute_tools"]_vars

C33_Witness ==
    /\ pc = "done"
    /\ Len(api_responses) = 2
    /\ api_responses[1].content =
          <<TextBlock(1, 1), ToolUseBlock(1, 2), ToolUseBlock(1, 3)>>
    /\ Len(tool_calls) = 2
    /\ messages[2].content[1].type = "text"
    /\ Len(messages[3].content) = 2
    /\ messages[3].content[1].tool_use_id = ToolUseBlock(1, 2).id

(***************************************************************************)
(* C34.  The loop sorts the responses of its LLM calls by stop reason      *)
(* alone, into two classes.  A response whose stop reason is tool_use      *)
(* takes the tool branch, whatever its content: with a dispatcher it       *)
(* starts a tool round (without one the run ends with the no-tool-manager  *)
(* message: C8).  A response with any other stop reason ends the run at    *)
(* once with the text of its first content block, nothing being logged or  *)
(* dispatched.  So every response that is followed by a dispatch or by a   *)
(* further LLM call has the stop reason tool_use.                          *)
(***************************************************************************)
\* the step is an in-budget LLM call that was answered
Answers == pc = "call" /\ Len(api_responses') = Len(api_responses) + 1

C34_TwoResponseClasses ==
    /\ [][Answers =>
            LET r == Get(current_response')
            IN  IF r.stop_reason = "tool_use"
                THEN IF tool_manager # None
                     THEN /\ pc' = "execute_tools"
                          /\ returned' = None
                          /\ Len(messages') = Len(messages) + 1
                     ELSE /\ pc' = "done"
                          /\ returned' = Some(NO_TOOL_MANAGER)
                ELSE /\ pc' = "done"
                     /\ returned' = Some(r.content[1].text)
                     /\ messages' = messages
                     /\ tool_calls' = tool_calls]_vars
    /\ [](\A i \in 1..(Len(api_responses) - 1) :
              api_responses[i].stop_reason = "tool_use")
    /\ [](\A c \in DispatchRounds : api_responses[c].stop_reason = "tool_use")
    /\ []((InRun /\ api_responses # <<>> /\ LastResponse.stop_reason # "tool_use") =>
             /\ ReturnedToCaller
             /\ returned = Some(LastResponse.content[1].text))

C34_Witness ==
    /\ pc = "done"
    /\ Len(api_responses) = 2
    /\ api_responses[1].stop_reason = "tool_use"
    /\ api_responses[2].stop_reason = "max_tokens"
    /\ Len(api_responses[2].content) = 2
    /\ tool_calls # <<>>
    /\ returned = Some(api_responses[2].content[1].text)
    /\ MAX_TOOL_ROUNDS = 2

(***************************************************************************)
(* C35.  The legacy _handle_tool_execution dispatches every tool-request   *)
(* block of the response it is given exactly once, in the order of the     *)
(* blocks, with the name and the input of the block.  It then makes        *)
(* exactly one LLM call, without tool schemas, on a copy of the caller's   *)
(* messages extended by the assistant message and (when there are results) *)
(* the tool-result message, and returns the text of that call's response.  *)
(* The message list of the caller's base_params is left as it was passed.  *)
(***************************************************************************)
\* the dispatches the given response asks for
LegacyRequested ==
    [i \in 1..Len(Requests(Get(h_initial_response).content)) |->
        [name  |-> Requests(Get(h_initial_response).content)[i].name,
         input |-> Requests(Get(h_initial_response).content)[i].input]]

\* the results of those dispatches, as the model of the final call sees them
LegacyResultMessage ==
    IF h_tool_results = <<>> THEN <<>>
    ELSE <<[role |-> "user", content |-> h_tool_results]>>

\* the method is past _execute_tools
LegacyCalled == h_pc \in {"done", "raised"} /\ h_api_calls # <<>>

C35_LegacySingleRound ==
    /\ [](h_pc # "idle" =>
            /\ Get(h_base_params) \in LegacyBaseParams
            /\ Len(h_tool_calls) <= Len(LegacyRequested)
            /\ h_tool_calls = SubSeq(LegacyRequested, 1, Len(h_tool_calls))
            /\ Len(h_api_calls) <= 1)
    /\ [][(h_pc # "idle" /\ h_pc' # "idle") =>
            h_base_params' = h_base_params]_vars
    /\ [](LegacyCalled =>
            /\ h_tool_calls = LegacyRequested
            /\ Len(h_tool_results) = Len(LegacyRequested)
            /\ \A i \in 1..Len(h_tool_results) :
                  h_tool_results[i].tool_use_id =
                     Requests(Get(h_initial_response).content)[i].id
            /\ Len(h_api_calls) = 1
            /\ "tools" \notin DOMAIN h_api_calls[1]
            /\ "tool_choice" \notin DOMAIN h_api_calls[1]
            /\ h_api_calls[1].system = Get(h_base_params).system
            /\ h_api_calls[1].messages =
                  Get(h_base_params).messages
                     \o <<[role |-> "assistant",
                           content |-> Get(h_initial_response).content]>>
                     \o LegacyResultMessage)
    /\ [](h_pc = "done" =>
            /\ h_final_response # None
            /\ h_returned = Some(Get(h_final_response).content[1].text))

C35_Witness ==
    /\ h_pc = "done"
    /\ Len(h_tool_calls) = 2
    /\ Len(h_tool_results) = 2
    /\ Len(h_api_calls[1].messages) = Len(Get(h_base_params).messages) + 2
    /\ "tools" \in DOMAIN Get(h_base_params)
    /\ h_returned = Some(Get(h_final_response).content[1].text)

(***************************************************************************)
(* C36.  In the query endpoint a session_id that is the empty string is    *)
(* treated like one that is absent: a session is created and the response  *)
(* carries the id of the new session, never the empty string.  A session   *)
(* created for a request stays created when the processing of that query   *)
(* fails: the failure removes no session and does not take the id back.    *)
(***************************************************************************)
EmptySessionId == Get(request).session_id = Some(<<>>)

\* the query being served has failed
QueryRejected == app_pc = "responded" /\ Get(response).status_code = 500

C36_EmptySessionId ==
    /\ []((ServingQuery /\ EmptySessionId) =>
            /\ session_id = Some(SessionId(session_counter))
            /\ Get(session_id) # <<>>
            /\ Get(session_id) \in DOMAIN sessions
            /\ Answered => Get(response).body.session_id = SessionId(session_counter))
    /\ [][(app_pc = "idle" /\ app_pc' = "query" /\ Get(request').session_id = Some(<<>>)) =>
            /\ session_counter' = session_counter + 1
            /\ DOMAIN sessions' = DOMAIN sessions \cup {SessionId(session_counter + 1)}
            /\ sessions'[SessionId(session_counter + 1)] = <<>>
            /\ session_history' = None]_vars
    /\ [][(app_pc = "query" /\ QueryRejected') =>
            /\ sessions' = sessions
            /\ session_counter' = session_counter
            /\ session_id' = session_id]_vars
    /\ []((ServingQuery /\ QueryRejected /\ ~Truthy(Get(request).session_id)) =>
            /\ Get(session_id) \in DOMAIN sessions
            /\ sessions[Get(session_id)] = <<>>)
    /\ [][DOMAIN sessions \subseteq DOMAIN sessions']_vars

C36_Witness ==
    /\ ServingQuery
    /\ EmptySessionId
    /\ QueryRejected
    /\ session_counter = 2
    /\ session_id = Some(SessionId(2))
    /\ {SessionId(1), SessionId(2)} \subseteq DOMAIN sessions

====
